---------------------------- MODULE Spec2Model ----------------------------
(***************************************************************************)
(* A model of the macro-expansion engine of cmacro-rs (src/macro_set.rs). *)
(*                                                                         *)
(* The state is a MacroSet (the two maps var_macros and fn_macros) and the *)
(* result of the last call of its public interface.  The expansion        *)
(* algorithm is a family of recursive operators that follow the Rust code  *)
(* function by function; a loop over an iterator becomes a recursive       *)
(* operator over a position in the token list.                             *)
(*                                                                         *)
(* A raw token is a string.  A classified token (enum Token) is a record   *)
(*   k  : the variant ("arg", "va", "punct", "id", "lit", "plain",         *)
(*        "comment", "pm"),                                                *)
(*   s  : its spelling,   i : the index of a MacroArg,                     *)
(*   lk : the kind of a literal ("int", "float", "str", "chr", and "pstr", *)
(*        "pchr" for a literal with an encoding prefix),                   *)
(*   nr : TRUE when the token is wrapped in Token::NonReplacable,          *)
(*   bp : history only: the token has been wrapped NonReplacable at some   *)
(*        time (the code has no such field and no operator of the model    *)
(*        branches on it).                                                 *)
(* A panic of the Rust code (index out of range, unwrap, unreachable!) is  *)
(* the result kind "panic"; a recursion deeper than MaxDepth is the result *)
(* kind "diverge".                                                         *)
(***************************************************************************)
EXTENDS Integers, Sequences, FiniteSets, TLC

VARIABLES var_macros, fn_macros, ret

vars == <<var_macros, fn_macros, ret>>

\* The deepest chain of nested expand_macro_body calls that is followed.
MaxDepth == 12

(***************************************************************************)
(* Token classification: Token::from_str.                                  *)
(***************************************************************************)

\* is_punctuation
Punctuation ==
  { "[", "]", "(", ")", "{", "}", ".", "->", "++", "--", "&", "*", "+", "-",
    "~", "!", "/", "%", "<<", ">>", "<", ">", "<=", ">=", "==", "!=", "^",
    "|", "&&", "||", "?", ":", ";", "...", "=", "*=", "/=", "%=", "+=", "-=",
    "<<=", ">>=", "&=", "^=", "|=", ",", "#", "##", "<:", ":>", "<%", "%>",
    "%:", "%:%:" }

is_punctuation(s) == s \in Punctuation

\* The raw tokens of the model that LitIdent::try_from accepts.
IdentifierSpellings ==
  { "T", "V", "F", "G", "a", "b", "x", "y", "z", "u8", "L", "__LINE__", "__FILE__" }

\* The raw tokens of the model that Lit::try_from accepts, by literal kind.
IntSpellings == { "0", "1", "2", "3" }

FloatSpellings == { "1.5", "1e4" }

StringSpellings == { "\"abc\"" }

CharSpellings == { "'c'" }

\* The raw tokens of the model that Comment::try_from accepts.
CommentSpellings == { "/*c*/" }

is_comment(s) == s \in CommentSpellings

\* is_whitespace: a blank token or a comment (the model has no blank token).
is_whitespace(s) == s = "" \/ s = " " \/ is_comment(s)

Tok(k, s, i, lk) ==
  [k |-> k, s |-> s, i |-> i, lk |-> lk, nr |-> FALSE, bp |-> FALSE]

MacroArg(i) == Tok("arg", "", i, "")

VarArgs == Tok("va", "__VA_ARGS__", 0, "")

Punct(s) == Tok("punct", s, 0, "")

Identifier(s) == Tok("id", s, 0, "")

Literal(lk, s) == Tok("lit", s, 0, lk)

Plain(s) == Tok("plain", s, 0, "")

Comment(s) == Tok("comment", s, 0, "")

Placemarker == Tok("pm", "", 0, "")

NonReplacable(t) == [t EXCEPT !.nr = TRUE, !.bp = TRUE]

\* The token inside a NonReplacable wrapper.
Unwrapped(t) == [t EXCEPT !.nr = FALSE]

IsPunct(t, s) == t.k = "punct" /\ t.s = s /\ ~t.nr

IsArgOrVarArgs(t) == t.k \in {"arg", "va"} /\ ~t.nr

from_str(s) ==
  IF s = "__VA_ARGS__" THEN VarArgs
  ELSE IF s \in IdentifierSpellings THEN Identifier(s)
  ELSE IF s \in IntSpellings THEN Literal("int", s)
  ELSE IF s \in FloatSpellings THEN Literal("float", s)
  ELSE IF s \in StringSpellings THEN Literal("str", s)
  ELSE IF s \in CharSpellings THEN Literal("chr", s)
  ELSE IF is_punctuation(s) THEN Punct(s)
  ELSE IF is_comment(s) THEN Comment(s)
  ELSE Plain(s)

\* The least index (from 1) at which seq holds x; 0 when it holds it nowhere.
Position(seq, x) ==
  IF \E p \in 1..Len(seq) : seq[p] = x
  THEN CHOOSE p \in 1..Len(seq) :
         seq[p] = x /\ \A q \in 1..(p - 1) : seq[q] # x
  ELSE 0

\* A variant of tokenize: no token is taken as a parameter.
tokenize_without_arguments(arg_names, tokens) ==
  [j \in 1..Len(tokens) |-> from_str(tokens[j])]

tokenize(arg_names, tokens) ==
  [j \in 1..Len(tokens) |->
     IF Position(arg_names, tokens[j]) > 0
     THEN MacroArg(Position(arg_names, tokens[j]) - 1)
     ELSE from_str(tokens[j])]

(***************************************************************************)
(* Results: Result<Vec<Token>, ExpansionError>, a panic, or a recursion    *)
(* that did not end within MaxDepth.  g is history only: an identifier     *)
(* that had been wrapped NonReplacable was replaced during the call.       *)
(***************************************************************************)

Res(t, toks, e, name, required, given, c) ==
  [t |-> t, toks |-> toks, e |-> e, name |-> name, required |-> required,
   given |-> given, c |-> c, g |-> FALSE]

Ok(toks) == Res("ok", toks, "", "", 0, 0, "")

Err(e) == Res("err", <<>>, e, "", 0, 0, "")

ErrParen(e, c) == Res("err", <<>>, e, "", 0, 0, c)

FnMacroArgumentError(name, required, given) ==
  Res("err", <<>>, "FnMacroArgumentError", name, required, given, "")

Panic(why) == Res("panic", <<>>, why, "", 0, 0, "")

Diverge == Res("diverge", <<>>, "", "", 0, 0, "")

WithHistory(r, g) == [r EXCEPT !.g = r.g \/ g]

(***************************************************************************)
(* Token::concat and Token::concat_punctuation.                            *)
(***************************************************************************)

ConcatPunctuationTable ==
  { <<"-", ">", "->">>, <<"+", "+", "++">>, <<"-", "-", "--">>,
    <<"<", "<", "<<">>, <<">", ">", ">>">>, <<"<", "=", "<=">>,
    <<">", "=", ">=">>, <<"=", "=", "==">>, <<"!", "=", "!=">>,
    <<"&", "&", "&&">>, <<"|", "|", "||">>, <<"*", "=", "*=">>,
    <<"/", "=", "/=">>, <<"%", "=", "%=">>, <<"+", "=", "+=">>,
    <<"-", "=", "-=">>, <<"<<", "=", "<<=">>, <<"<", "<=", "<<=">>,
    <<">>", "=", ">>=">>, <<">", ">=", ">>=">>, <<"&", "=", "&=">>,
    <<"^", "=", "^=">>, <<"|", "=", "|=">>, <<"#", "#", "##">>,
    <<"<", ":", "<:">>, <<":", ">", ":>">>, <<"<", "%", "<%">>,
    <<"%", ">", "%>">>, <<"%", ":", "%:">>, <<"%:", "%:", "%:%:">> }

\* A variant of concat_punctuation: any two punctuation tokens are pasted.
concat_any_punctuation(lhs, rhs) == Ok(<<NonReplacable(Punct(lhs \o rhs))>>)

concat_punctuation(lhs, rhs) ==
  IF \E e \in ConcatPunctuationTable : e[1] = lhs /\ e[2] = rhs
  THEN Ok(<<NonReplacable(Punct(
         (CHOOSE e \in ConcatPunctuationTable : e[1] = lhs /\ e[2] = rhs)[3]))>>)
  ELSE Err("InvalidConcat")

\* s.chars(), each char as a string of length one.
Chars(s) == [j \in 1..Len(s) |-> SubSeq(s, j, j)]

Digits == { "0", "1", "2", "3", "4", "5", "6", "7", "8", "9" }

\* Lit::try_from on a text of decimal digits: an integer literal.
IntLiteral(s) == s # "" /\ \A j \in 1..Len(s) : Chars(s)[j] \in Digits

\* Lit::try_from on a text of decimal digits, `.` and `e`: a float literal
\* has digits, at most one `.`, at most one exponent with digits after it,
\* one of the two at least and no `.` in the exponent.
FloatLiteral(s) ==
  LET c == Chars(s)
      dots == { j \in 1..Len(s) : c[j] = "." }
      exps == { j \in 1..Len(s) : c[j] = "e" }
      digits == { j \in 1..Len(s) : c[j] \in Digits }
  IN  /\ dots \cup exps \cup digits = 1..Len(s)
      /\ Cardinality(dots) <= 1
      /\ Cardinality(exps) <= 1
      /\ dots \cup exps # {}
      /\ \A d \in dots, e \in exps : d < e
      /\ \E j \in digits : \A e \in exps : j < e
      /\ \A e \in exps : e < Len(s)

\* The last arm of concat: the joined spelling is parsed again, as an
\* identifier, else as a literal, else it is Plain.  Only a left operand that
\* is a number or Plain reaches it; the joined text is no identifier then,
\* and it may be a literal when both operands are numbers.
Reparse(lhs, rhs) ==
  IF lhs.k = "lit" /\ rhs.k = "lit" /\ lhs.lk \in {"int", "float"}
     /\ rhs.lk \in {"int", "float"} /\ IntLiteral(lhs.s \o rhs.s)
  THEN Literal("int", lhs.s \o rhs.s)
  ELSE IF lhs.k = "lit" /\ rhs.k = "lit" /\ lhs.lk \in {"int", "float"}
          /\ rhs.lk \in {"int", "float"} /\ FloatLiteral(lhs.s \o rhs.s)
  THEN Literal("float", lhs.s \o rhs.s)
  ELSE Plain(lhs.s \o rhs.s)

\* chars().all(is_xid_continue) on the spelling of a float literal: `.` and
\* the sign of an exponent are the chars of it that are not XID_Continue.
AllXidContinue(s) == \A j \in 1..Len(s) : Chars(s)[j] \notin { ".", "+", "-" }

RECURSIVE concat(_, _)
concat(lhs, rhs) ==
  IF lhs.nr THEN concat(Unwrapped(lhs), rhs)
  ELSE IF rhs.nr THEN concat(lhs, Unwrapped(rhs))
  ELSE IF lhs.k = "pm" THEN Ok(<<rhs>>)
  ELSE IF rhs.k = "pm" THEN Ok(<<lhs>>)
  ELSE IF lhs.k = "id" /\ rhs.k = "id" THEN Ok(<<Identifier(lhs.s \o rhs.s)>>)
  ELSE IF lhs.k = "punct" /\ rhs.k = "punct" THEN concat_punctuation(lhs.s, rhs.s)
  ELSE IF lhs.k = "lit" /\ lhs.lk \in {"str", "chr", "pstr", "pchr"}
  THEN Err("InvalidConcat")
  ELSE IF lhs.k = "punct" /\ rhs.k = "lit"
  THEN IF lhs.s = "." /\ rhs.lk \in {"int", "float"} /\ FloatLiteral(lhs.s \o rhs.s)
       THEN Ok(<<Literal("float", lhs.s \o rhs.s)>>)
       ELSE Err("InvalidConcat")
  ELSE IF lhs.k = "id" /\ rhs.k = "lit"
  THEN IF rhs.lk \in {"str", "chr"} /\ lhs.s \in {"u8", "u", "U", "L"}
       THEN Ok(<<Literal(IF rhs.lk = "str" THEN "pstr" ELSE "pchr", lhs.s \o rhs.s)>>)
       ELSE IF rhs.lk \in {"str", "chr", "pstr", "pchr"} THEN Err("InvalidConcat")
       ELSE IF rhs.lk = "int" THEN Ok(<<Identifier(lhs.s \o rhs.s)>>)
       ELSE IF AllXidContinue(rhs.s) THEN Ok(<<Identifier(lhs.s \o rhs.s)>>)
       ELSE Err("InvalidConcat")
  ELSE IF lhs.k \in {"id", "lit", "plain"} /\ rhs.k \in {"id", "lit", "plain"}
  THEN Ok(<<Reparse(lhs, rhs)>>)
  ELSE IF lhs.k = "punct" THEN Err("InvalidConcat")
  ELSE IF rhs.k = "punct" THEN Err("InvalidConcat")
  ELSE Panic("unreachable")

(***************************************************************************)
(* Token::stringify and stringify.                                         *)
(***************************************************************************)

\* A variant of StringifyAction: __LINE__ and __FILE__ are appended by name
\* at every nesting level.
RECURSIVE StringifyActionByName(_, _)
StringifyActionByName(t, nested) ==
  IF t.nr THEN StringifyActionByName(Unwrapped(t), nested)
  ELSE IF t.k = "arg" THEN "keep"
  ELSE IF t.k = "va" THEN (IF nested THEN "keep" ELSE "append")
  ELSE IF t.k \in {"id", "lit", "plain", "punct"} THEN "append"
  ELSE "skip"

\* StringifyAction: "keep", "skip", or "append" (of the token's spelling).
RECURSIVE StringifyAction(_, _)
StringifyAction(t, nested) ==
  IF t.nr THEN StringifyAction(Unwrapped(t), nested)
  ELSE IF t.k = "arg" THEN "keep"
  ELSE IF t.k = "va" THEN (IF nested THEN "keep" ELSE "append")
  ELSE IF t.k = "id"
  THEN (IF t.s \in {"__LINE__", "__FILE__"} /\ nested THEN "keep" ELSE "append")
  ELSE IF t.k \in {"lit", "plain", "punct"} THEN "append"
  ELSE "skip"

\* format!("{s:?}") without the quotes around it: `"` and `\` are escaped.
RECURSIVE EscapeDebug(_)
EscapeDebug(s) ==
  IF s = "" THEN ""
  ELSE (IF SubSeq(s, 1, 1) = "\"" THEN "\\\""
        ELSE IF SubSeq(s, 1, 1) = "\\" THEN "\\\\"
        ELSE SubSeq(s, 1, 1)) \o EscapeDebug(SubSeq(s, 2, Len(s)))

\* A variant of NoSpaceBefore: a space is put before `(`.
NoSpaceBeforeClosing == { ")", "]", "}", ".", "," }

\* The tokens before which stringify puts no space.
NoSpaceBefore == { ")", "]", "}", ".", ",", "(" }

\* The tokens after which stringify puts no space.
NoSpaceAfter == { "(", "[", "{", "." }

\* The loop of stringify: out is `tokens`, has and cur are `current_string`.
RECURSIVE StringifyLoop(_, _, _, _, _, _, _)
StringifyLoop(tokens, nested, pos, out, space_before_next, has, cur) ==
  IF pos > Len(tokens)
  THEN LET all == IF has THEN Append(out, Literal("str", "\"" \o EscapeDebug(cur) \o "\"")) ELSE out
       IN  IF all = <<>> THEN <<Literal("str", "\"\"")>> ELSE all
  ELSE LET t == tokens[pos]
           action == StringifyAction(t, nested)
       IN  IF action = "keep"
           THEN StringifyLoop(tokens, nested, pos + 1, out \o <<Punct("#"), t>>,
                              space_before_next, has, cur)
           ELSE IF action = "skip"
           THEN StringifyLoop(tokens, nested, pos + 1, out, space_before_next, has, cur)
           ELSE StringifyLoop(tokens, nested, pos + 1, out,
                              t.s \notin NoSpaceAfter, TRUE,
                              (IF t.s \notin NoSpaceBefore /\ space_before_next
                               THEN cur \o " " ELSE cur) \o t.s)

stringify(tokens, nested) == StringifyLoop(tokens, nested, 1, <<>>, FALSE, FALSE, "")

(***************************************************************************)
(* MacroSet::expand_concat and MacroSet::remove_placemarkers.              *)
(***************************************************************************)

\* until_no_whitespace!(tokens.pop(), ConcatBegin): the number of tokens of
\* out that stay, the last of the popped ones being the operand; 0 stays and
\* no operand when out holds comments only.
RECURSIVE PopOperand(_, _)
PopOperand(out, n) ==
  IF n = 0 THEN 0
  ELSE IF out[n].k = "comment" /\ ~out[n].nr THEN PopOperand(out, n - 1)
  ELSE n

\* until_no_whitespace!(it.next(), ConcatEnd): the position of the operand,
\* Len(tokens) + 1 when only comments follow.
RECURSIVE NextOperand(_, _)
NextOperand(tokens, p) ==
  IF p > Len(tokens) THEN p
  ELSE IF tokens[p].k = "comment" /\ ~tokens[p].nr THEN NextOperand(tokens, p + 1)
  ELSE p

RECURSIVE ConcatLoop(_, _, _)
ConcatLoop(tokens, pos, out) ==
  IF pos > Len(tokens) THEN Ok(out)
  ELSE IF /\ IsPunct(tokens[pos], "##")
          /\ ~(out # <<>> /\ IsArgOrVarArgs(out[Len(out)]))
          /\ ~(pos < Len(tokens) /\ IsArgOrVarArgs(tokens[pos + 1]))
  THEN LET n == PopOperand(out, Len(out))
           consecutive == pos < Len(tokens) /\ IsPunct(tokens[pos + 1], "##")
           q == NextOperand(tokens, pos + 1)
       IN  IF n = 0 THEN Err("ConcatBegin")
           ELSE IF ~consecutive /\ q > Len(tokens) THEN Err("ConcatEnd")
           ELSE LET r == concat(out[n], IF consecutive THEN Placemarker ELSE tokens[q])
                IN  IF r.t # "ok" THEN r
                    ELSE ConcatLoop(tokens, IF consecutive THEN pos + 1 ELSE q + 1,
                                    SubSeq(out, 1, n - 1) \o r.toks)
  ELSE ConcatLoop(tokens, pos + 1, Append(out, tokens[pos]))

expand_concat(tokens) == ConcatLoop(tokens, 1, <<>>)

remove_placemarkers(tokens) == SelectSeq(tokens, LAMBDA t : ~(t.k = "pm" /\ ~t.nr))

(***************************************************************************)
(* MacroSet::collect_args.  The result is [t, args, next, e, c]: next is   *)
(* the position that follows the closing parenthesis.                      *)
(***************************************************************************)

ArgsOk(args, next) == [t |-> "ok", args |-> args, next |-> next, e |-> "", c |-> ""]

ArgsErr(e, c) == [t |-> "err", args |-> <<>>, next |-> 0, e |-> e, c |-> c]

\* The closure `pop`: the stack with its top taken off, or the error.
Pop(parentheses, open, close) ==
  IF parentheses = <<>> THEN ArgsErr("MissingOpenParenthesis", close)
  ELSE IF parentheses[Len(parentheses)] = open
  THEN ArgsOk(SubSeq(parentheses, 1, Len(parentheses) - 1), 0)
  ELSE ArgsErr("UnclosedParenthesis", parentheses[Len(parentheses)])

\* A variant of EndOfInput: the end of the token list closes the call.
EndOfInputClosesCall(tokens, args, current_arg) ==
  ArgsOk(Append(args, current_arg), Len(tokens) + 1)

\* What collect_args returns when the token list ends inside the arguments.
EndOfInput(tokens, args, current_arg) == ArgsErr("UnclosedParenthesis", "(")

Opener(close) == IF close = ")" THEN "(" ELSE IF close = "]" THEN "[" ELSE "{"

RECURSIVE CollectLoop(_, _, _, _, _)
CollectLoop(tokens, pos, parentheses, args, current_arg) ==
  IF pos > Len(tokens) THEN EndOfInput(tokens, args, current_arg)
  ELSE LET t == tokens[pos]
           p == t.s
       IN  IF ~(t.k = "punct" /\ ~t.nr)
           THEN CollectLoop(tokens, pos + 1, parentheses, args, Append(current_arg, t))
           ELSE IF p \in {"(", "[", "{"}
           THEN CollectLoop(tokens, pos + 1, Append(parentheses, p), args,
                            Append(current_arg, t))
           ELSE IF p = ")" /\ parentheses = <<>>
           THEN ArgsOk(Append(args, current_arg), pos + 1)
           ELSE IF p \in {")", "]", "}"}
           THEN LET popped == Pop(parentheses, Opener(p), p)
                IN  IF popped.t # "ok" THEN popped
                    ELSE CollectLoop(tokens, pos + 1, popped.args, args,
                                     Append(current_arg, t))
           ELSE IF p = "," /\ parentheses = <<>>
           THEN CollectLoop(tokens, pos + 1, parentheses, Append(args, current_arg), <<>>)
           ELSE CollectLoop(tokens, pos + 1, parentheses, args, Append(current_arg, t))

\* pos is the position of the token that follows the macro's name.
collect_args(tokens, pos) ==
  IF pos <= Len(tokens) /\ IsPunct(tokens[pos], "(")
  THEN CollectLoop(tokens, pos + 1, <<>>, <<>>, <<>>)
  ELSE ArgsErr("MissingOpenParenthesis", "(")

(***************************************************************************)
(* The expansion: expand_macro_body, expand_var_macro_body,                *)
(* expand_fn_macro_body and expand_arguments.  d is the depth that is left *)
(* for nested calls of expand_macro_body.                                  *)
(***************************************************************************)

\* A variant of contains_var_args: __VA_ARGS__ is never found.
contains_no_var_args(body) == FALSE

contains_var_args(body) == \E j \in 1..Len(body) : body[j].k = "va" /\ ~body[j].nr

\* A variant of IsNonReplaced: no name is ever found.
IsNonReplacedNever(non_replaced_names, id) == FALSE

\* non_replaced_names.contains(id)
IsNonReplaced(non_replaced_names, id) == id \in non_replaced_names

\* A variant of PushIdentifier: the name of a function-like macro that is not
\* invoked is taken as an invocation without arguments and replaced by nothing.
PushIdentifierUnlessFnMacro(tokens, token) ==
  IF token.s \in DOMAIN fn_macros THEN tokens ELSE Append(tokens, token)

\* tokens.push(token) for an identifier that is not replaced.
PushIdentifier(tokens, token) == Append(tokens, token)

\* The arity check of expand_fn_macro_body for a macro that is not variadic.
ArityMismatch(arg_names, args) ==
  /\ Len(arg_names) # Len(args)
  /\ ~(arg_names = <<>> /\ (args = <<>> \/ args[1] = <<>>))

\* The first parameter name that occurs again later in arg_names, "" if none.
DuplicateParameter(arg_names) ==
  LET dup(j) == \E q \in (j + 1)..Len(arg_names) : arg_names[q] = arg_names[j]
  IN  IF \E j \in 1..Len(arg_names) : dup(j)
      THEN arg_names[CHOOSE j \in 1..Len(arg_names) :
                       dup(j) /\ \A q \in 1..(j - 1) : ~dup(q)]
      ELSE ""

\* A variant of JoinVarArgs: only the first of the arguments is taken.
JoinFirstVarArg(args, from) == IF from > Len(args) THEN <<>> ELSE args[from]

\* args[(arg_names.len() - 1)..] joined by `,` tokens; from is 1-based.
RECURSIVE JoinVarArgs(_, _)
JoinVarArgs(args, from) ==
  IF from > Len(args) THEN <<>>
  ELSE IF from = Len(args) THEN args[from]
  ELSE args[from] \o <<Punct(",")>> \o JoinVarArgs(args, from + 1)

RECURSIVE expand_macro_body(_, _, _)
RECURSIVE ScanLoop(_, _, _, _, _)
RECURSIVE expand_var_macro_body(_, _, _, _)
RECURSIVE expand_fn_macro_body(_, _, _, _, _, _, _)
RECURSIVE ArgumentsLoop(_, _, _, _, _, _, _, _)

\* A variant of Rescan: only the tokens after the replaced macro are scanned
\* again, what is built so far and the replacement are final.
RescanRemainder(non_replaced_names, tokens, expanded, rest, painted, d) ==
  IF expanded.t # "ok" THEN WithHistory(expanded, painted)
  ELSE LET scanned == expand_macro_body(non_replaced_names, rest, d)
       IN  IF scanned.t # "ok" THEN WithHistory(scanned, expanded.g \/ painted)
           ELSE WithHistory(Ok(tokens \o expanded.toks \o scanned.toks),
                            expanded.g \/ painted)

\* The tail of a replacement in expand_macro_body: the error of the expansion
\* is returned (`?`), else `tokens.extend(expanded); tokens.extend(it);` and
\* the whole vector is scanned again.  painted is history only.
Rescan(non_replaced_names, tokens, expanded, rest, painted, d) ==
  IF expanded.t # "ok" THEN WithHistory(expanded, painted)
  ELSE WithHistory(
         expand_macro_body(non_replaced_names, tokens \o expanded.toks \o rest, d),
         expanded.g \/ painted)

\* The `while let Some(token) = it.next()` loop of expand_macro_body: pos is
\* the iterator's position in body, tokens the vector built so far.
ScanLoop(non_replaced_names, body, pos, tokens, d) ==
  IF pos > Len(body) THEN Ok(tokens)
  ELSE LET token == body[pos]
           rest(p) == SubSeq(body, p, Len(body))
           args == IF /\ pos < Len(body)
                      /\ IsPunct(body[pos + 1], "(")
                      /\ token.s \in DOMAIN fn_macros
                   THEN collect_args(body, pos + 1)
                   ELSE ArgsErr("", "")
       IN  IF token.k = "id" /\ ~token.nr /\ ~IsNonReplaced(non_replaced_names, token.s)
              /\ args.t = "ok"
           THEN Rescan(non_replaced_names, tokens,
                       expand_fn_macro_body(non_replaced_names, token.s,
                         fn_macros[token.s].args, TRUE, args.args,
                         tokenize(fn_macros[token.s].args, fn_macros[token.s].body), d),
                       rest(args.next), token.bp, d)
           ELSE IF token.k = "id" /\ ~token.nr
                   /\ ~IsNonReplaced(non_replaced_names, token.s)
                   /\ token.s \in DOMAIN var_macros
           THEN Rescan(non_replaced_names, tokens,
                       expand_var_macro_body(non_replaced_names, token.s,
                         tokenize(<<>>, var_macros[token.s]), d),
                       rest(pos + 1), token.bp, d)
           ELSE ScanLoop(non_replaced_names, body, pos + 1,
                  IF ~(token.k = "id" /\ ~token.nr) THEN Append(tokens, token)
                  ELSE IF IsNonReplaced(non_replaced_names, token.s)
                  THEN Append(tokens, NonReplacable(token))
                  ELSE PushIdentifier(tokens, token),
                  d)

expand_macro_body(non_replaced_names, body, d) ==
  IF d = 0 THEN Diverge ELSE ScanLoop(non_replaced_names, body, 1, <<>>, d - 1)

\* The tail of expand_var_macro_body and expand_fn_macro_body after the
\* arguments are substituted: expand_concat, remove_placemarkers and the scan
\* with name added to non_replaced_names.
ConcatAndScan(non_replaced_names, name, concatenated, g, d) ==
  IF concatenated.t # "ok" THEN WithHistory(concatenated, g)
  ELSE WithHistory(
         expand_macro_body(non_replaced_names \cup {name},
                           remove_placemarkers(concatenated.toks), d),
         g)

expand_var_macro_body(non_replaced_names, name, body, d) ==
  IF contains_var_args(body) THEN Err("NonVariadicVarArgs")
  ELSE ConcatAndScan(non_replaced_names, name, expand_concat(body), FALSE, d)

\* A variant of PeekIsArgument: any token may follow `#`.
PeekIsAnyToken(body, pos) == pos < Len(body)

\* it.peek() is Some(Token::MacroArg(_) | Token::VarArgs), pos being the
\* position of the token taken last.
PeekIsArgument(body, pos) == pos < Len(body) /\ IsArgOrVarArgs(body[pos + 1])

\* A variant of Substituted: the operand of `#` is the expanded argument.
SubstitutedExpanded(non_replaced_names, tokens, arg, expanded, after_concat, before_concat) ==
  IF expanded.t # "ok" THEN expanded
  ELSE IF tokens # <<>> /\ IsPunct(tokens[Len(tokens)], "#")
  THEN Ok(SubSeq(tokens, 1, Len(tokens) - 1)
            \o stringify(expanded.toks, Cardinality(non_replaced_names) > 1))
  ELSE IF (after_concat \/ before_concat) /\ expanded.toks = <<>>
  THEN WithHistory(Ok(Append(tokens, Placemarker)), expanded.g)
  ELSE WithHistory(Ok(tokens \o expanded.toks), expanded.g)

\* A variant of Substituted: an empty argument next to `##` leaves no
\* Placemarker.
SubstitutedWithoutPlacemarker(non_replaced_names, tokens, arg, expanded, after_concat, before_concat) ==
  IF tokens # <<>> /\ IsPunct(tokens[Len(tokens)], "#")
  THEN Ok(SubSeq(tokens, 1, Len(tokens) - 1)
            \o stringify(arg, Cardinality(non_replaced_names) > 1))
  ELSE IF expanded.t # "ok" THEN expanded
  ELSE WithHistory(Ok(tokens \o expanded.toks), expanded.g)

\* A variant of Substituted: the argument is put in as it is written.
SubstitutedUnexpanded(non_replaced_names, tokens, arg, expanded, after_concat, before_concat) ==
  IF tokens # <<>> /\ IsPunct(tokens[Len(tokens)], "#")
  THEN Ok(SubSeq(tokens, 1, Len(tokens) - 1)
            \o stringify(arg, Cardinality(non_replaced_names) > 1))
  ELSE IF (after_concat \/ before_concat) /\ arg = <<>>
  THEN Ok(Append(tokens, Placemarker))
  ELSE Ok(tokens \o arg)

\* What one MacroArg or VarArgs of the body adds to tokens in expand_arguments:
\* expanded is the expansion of the argument (arg unexpanded), used unless the
\* argument is the operand of `#`.
Substituted(non_replaced_names, tokens, arg, expanded, after_concat, before_concat) ==
  IF tokens # <<>> /\ IsPunct(tokens[Len(tokens)], "#")
  THEN Ok(SubSeq(tokens, 1, Len(tokens) - 1)
            \o stringify(arg, Cardinality(non_replaced_names) > 1))
  ELSE IF expanded.t # "ok" THEN expanded
  ELSE IF (after_concat \/ before_concat) /\ expanded.toks = <<>>
  THEN WithHistory(Ok(Append(tokens, Placemarker)), expanded.g)
  ELSE WithHistory(Ok(tokens \o expanded.toks), expanded.g)

\* The loop of expand_arguments over the macro's body: tokens is the vector
\* built so far, g the history of the argument expansions made so far.
ArgumentsLoop(non_replaced_names, arg_names, args, body, pos, tokens, g, d) ==
  IF pos > Len(body) THEN WithHistory(Ok(tokens), g)
  ELSE LET token == body[pos]
           peek_arg == PeekIsArgument(body, pos)
           peek_concat == pos < Len(body) /\ IsPunct(body[pos + 1], "##")
           last_concat == tokens # <<>> /\ IsPunct(tokens[Len(tokens)], "##")
           out_of_range == IF token.k = "arg" THEN token.i >= Len(args)
                           ELSE Len(arg_names) - 1 > Len(args)
           arg == IF token.k = "arg" THEN args[token.i + 1]
                  ELSE JoinVarArgs(args, Len(arg_names))
           step == IF IsPunct(token, "#")
                   THEN IF peek_arg THEN Ok(Append(tokens, token))
                        ELSE Err("StringifyNonArgument")
                   ELSE IF ~IsArgOrVarArgs(token) THEN Ok(Append(tokens, token))
                   ELSE IF out_of_range THEN Panic("index out of range")
                   ELSE Substituted(non_replaced_names, tokens, arg,
                          expand_macro_body(non_replaced_names, arg, d),
                          last_concat, peek_concat)
       IN  IF step.t # "ok" THEN WithHistory(step, g \/ step.g)
           ELSE ArgumentsLoop(non_replaced_names, arg_names, args, body, pos + 1,
                              step.toks, g \/ step.g, d)

expand_arguments(non_replaced_names, arg_names, args, tokens, d) ==
  ArgumentsLoop(non_replaced_names, arg_names, args, tokens, 1, <<>>, FALSE, d)

\* The tail of expand_fn_macro_body: substituted is the result of
\* expand_arguments (the body itself for `args: None`).
SubstitutedAndScan(non_replaced_names, name, substituted, d) ==
  IF substituted.t # "ok" THEN substituted
  ELSE ConcatAndScan(non_replaced_names, name, expand_concat(substituted.toks),
                     substituted.g, d)

\* has_args is FALSE for `args: None` (the expansion as a template).
expand_fn_macro_body(non_replaced_names, name, arg_names, has_args, args, body, d) ==
  LET is_variadic == arg_names # <<>> /\ arg_names[Len(arg_names)] = "..."
  IN  IF ~is_variadic /\ contains_var_args(body) THEN Err("NonVariadicVarArgs")
      ELSE IF ~is_variadic /\ has_args /\ ArityMismatch(arg_names, args)
      THEN FnMacroArgumentError(name, Len(arg_names), Len(args))
      ELSE IF DuplicateParameter(arg_names) # ""
      THEN Res("err", <<>>, "NonUniqueArgument", DuplicateParameter(arg_names), 0, 0, "")
      ELSE SubstitutedAndScan(non_replaced_names, name,
             IF has_args
             THEN expand_arguments(non_replaced_names, arg_names, args, body, d)
             ELSE Ok(body),
             d)

(***************************************************************************)
(* detokenize and the public expansion functions.  A MacroToken is a       *)
(* record [k, s, i] with k one of "Arg", "Id", "Lit", "Token", "Comment".  *)
(***************************************************************************)

MacroToken(k, s, i) == [k |-> k, s |-> s, i |-> i]

\* Token::detokenize of a token that is no Placemarker.
DetokenizeToken(arg_names, t) ==
  IF t.k = "arg" THEN MacroToken("Arg", "", t.i)
  ELSE IF t.k = "va" THEN MacroToken("Arg", "", Len(arg_names) - 1)
  ELSE IF t.k = "id" THEN MacroToken("Id", t.s, 0)
  ELSE IF t.k = "lit" THEN MacroToken("Lit", t.s, 0)
  ELSE IF t.k = "comment" THEN MacroToken("Comment", t.s, 0)
  ELSE MacroToken("Token", t.s, 0)

detokenize(arg_names, tokens) ==
  LET kept == SelectSeq(tokens, LAMBDA t : t.k # "pm")
  IN  [j \in 1..Len(kept) |-> DetokenizeToken(arg_names, kept[j])]

\* detokenize of an Ok result; `arg_names.len() - 1` panics for no parameter.
Detokenized(arg_names, r) ==
  IF r.t # "ok" THEN r
  ELSE IF arg_names = <<>> /\ \E j \in 1..Len(r.toks) : r.toks[j].k = "va"
  THEN Panic("subtract with overflow")
  ELSE [r EXCEPT !.toks = detokenize(arg_names, r.toks)]

expand_var_macro(name) ==
  IF name \notin DOMAIN var_macros THEN Err("MacroNotFound")
  ELSE Detokenized(<<>>,
         expand_var_macro_body({}, name, tokenize(<<>>, var_macros[name]), MaxDepth))

\* The body that expand_fn_macro returns (the second component).
expand_fn_macro(name) ==
  IF name \notin DOMAIN fn_macros THEN Err("MacroNotFound")
  ELSE Detokenized(fn_macros[name].args,
         expand_fn_macro_body({}, name, fn_macros[name].args, FALSE, <<>>,
           tokenize(fn_macros[name].args, fn_macros[name].body), MaxDepth))

\* The parameter names that expand_fn_macro returns (the first component).
ParameterTokens(arg_names) ==
  [j \in 1..Len(arg_names) |->
     IF arg_names[j] \in IdentifierSpellings THEN MacroToken("Id", arg_names[j], 0)
     ELSE MacroToken("Token", arg_names[j], 0)]

(***************************************************************************)
(* The MacroSet and its public interface.  var_macros maps a name to its   *)
(* body, fn_macros maps a name to [args, body]; ret is the last call:      *)
(*   op, name : the function called and its `name` argument,               *)
(*   flag     : the bool returned by define_*_macro and undefine_macro,    *)
(*   res      : the body returned by expand_*_macro,                       *)
(*   params   : the parameter tokens returned by expand_fn_macro,          *)
(*   prev     : history only: how name was defined before the call         *)
(*              ("none", "var", "fn"),                                     *)
(*   old      : history only: the definition of name replaced by the call. *)
(***************************************************************************)

\* The macro names of the model.
Names == { "T", "V", "F", "G" }

\* The definitions define_var_macro is called with: <<name, body>>.
VarDefinitions ==
  { <<"T", <<"F", "(", "V", ",", ")">>>>,
    <<"T", <<"F", "(", "1", ",">>>>,
    <<"T", <<"F", "(", "]", ")">>>>,
    <<"T", <<"F", "/*c*/", "(", "1", ")">>>>,
    <<"T", <<"F", "(", ",", "1", ")">>>>,
    <<"T", <<"F", "(", "1", ")">>>>,
    <<"T", <<"G">>>>,
    <<"V", <<"1", "+", "V">>>>,
    <<"V", <<"1", "+", "2">>>>,
    <<"V", <<"1">>>>,
    <<"V", <<"/*c*/", "1", "/*c*/">>>>,
    <<"F", <<"F">>>>,
    <<"G", <<"F">>>> }

\* The definitions define_fn_macro is called with: <<name, args, body>>.
FnDefinitions ==
  { <<"F", <<"x", "y">>, <<"x", "##", "y">>>>,
    <<"F", <<"x">>, <<"G", "(", "x", ")">>>>,
    <<"F", <<>>, <<"1">>>>,
    <<"F", <<"a", "b", "...">>, <<"a", "+", "b">>>>,
    <<"F", <<"a">>, <<"a", "/*c*/", "##", "b">>>>,
    <<"F", <<"x">>, <<"x">>>>,
    <<"F", <<"x", "y">>, <<"x">>>>,
    <<"G", <<"x">>, <<"F", "(", "x", ")">>>>,
    <<"G", <<"x">>, <<"x">>>> }

Remove(map, name) == [n \in DOMAIN map \ {name} |-> map[n]]

\* A variant of Insert: the entry of a name that is in the map is kept.
InsertIfAbsent(map, name, value) ==
  [n \in DOMAIN map \cup {name} |-> IF n \in DOMAIN map THEN map[n] ELSE value]

\* HashMap::insert
Insert(map, name, value) ==
  [n \in DOMAIN map \cup {name} |-> IF n = name THEN value ELSE map[n]]

\* iter().filter(|t| !is_whitespace(t))
NoWhitespace(tokens) == SelectSeq(tokens, LAMBDA s : ~is_whitespace(s))

\* old.zip(new).all(|(t1, t2)| t1 == t2): zip ends with the shorter one.
ZipAllEqual(old, new) ==
  \A j \in 1..(IF Len(old) < Len(new) THEN Len(old) ELSE Len(new)) : old[j] = new[j]

Kind(name) ==
  IF name \in DOMAIN var_macros THEN "var"
  ELSE IF name \in DOMAIN fn_macros THEN "fn"
  ELSE "none"

\* History: the definition of name, as <<kind, args, body>>.
Definition(name) ==
  IF name \in DOMAIN var_macros THEN <<"var", <<>>, var_macros[name]>>
  ELSE IF name \in DOMAIN fn_macros
  THEN <<"fn", fn_macros[name].args, fn_macros[name].body>>
  ELSE <<"none", <<>>, <<>>>>

Ret(op, name, flag, res, params) ==
  [op |-> op, name |-> name, flag |-> flag, res |-> res, params |-> params,
   prev |-> Kind(name), old |-> Definition(name)]

\* MacroSet::new
Init ==
  /\ var_macros = <<>>
  /\ fn_macros = <<>>
  /\ ret = [op |-> "new", name |-> "", flag |-> FALSE, res |-> Ok(<<>>),
            params |-> <<>>, prev |-> "none", old |-> <<"none", <<>>, <<>>>>]

\* The bool define_var_macro returns.
VarRedefined(name, body) ==
  IF name \in DOMAIN var_macros
  THEN ~ZipAllEqual(NoWhitespace(var_macros[name]), NoWhitespace(body))
  ELSE name \in DOMAIN fn_macros

\* A variant of FnMacrosAfterDefineVar: the other kind is never removed.
FnMacrosKeptAfterDefineVar(name) == fn_macros

\* fn_macros after define_var_macro: the other kind is removed only when no
\* variable-like macro of that name was found.
FnMacrosAfterDefineVar(name) ==
  IF name \in DOMAIN var_macros THEN fn_macros ELSE Remove(fn_macros, name)

define_var_macro(name, body) ==
  /\ var_macros' = Insert(var_macros, name, body)
  /\ fn_macros' = FnMacrosAfterDefineVar(name)
  /\ ret' = Ret("define_var_macro", name, VarRedefined(name, body), Ok(<<>>), <<>>)

\* The bool define_fn_macro returns.
FnRedefined(name, args, body) ==
  IF name \in DOMAIN fn_macros
  THEN ~(/\ ZipAllEqual(NoWhitespace(fn_macros[name].args), NoWhitespace(args))
         /\ ZipAllEqual(NoWhitespace(fn_macros[name].body), NoWhitespace(body)))
  ELSE name \in DOMAIN var_macros

VarMacrosAfterDefineFn(name) ==
  IF name \in DOMAIN fn_macros THEN var_macros ELSE Remove(var_macros, name)

define_fn_macro(name, args, body) ==
  /\ fn_macros' = Insert(fn_macros, name, [args |-> args, body |-> body])
  /\ var_macros' = VarMacrosAfterDefineFn(name)
  /\ ret' = Ret("define_fn_macro", name, FnRedefined(name, args, body), Ok(<<>>), <<>>)

\* A variant of Undefined: only the variable-like map is looked at.
UndefinedVarOnly(name) == name \in DOMAIN var_macros

\* The bool undefine_macro returns.
Undefined(name) == name \in DOMAIN var_macros \/ name \in DOMAIN fn_macros

\* `||` does not evaluate fn_macros.remove when var_macros.remove found it.
FnMacrosAfterUndefine(name) ==
  IF name \in DOMAIN var_macros THEN fn_macros ELSE Remove(fn_macros, name)

undefine_macro(name) ==
  /\ var_macros' = Remove(var_macros, name)
  /\ fn_macros' = FnMacrosAfterUndefine(name)
  /\ ret' = Ret("undefine_macro", name, Undefined(name), Ok(<<>>), <<>>)

\* A variant of VarMacrosAfterExpand: a macro whose expansion failed is dropped.
VarMacrosAfterFailedExpand(name, res) ==
  IF res.t = "ok" THEN var_macros ELSE Remove(var_macros, name)

\* var_macros after expand_var_macro or expand_fn_macro returned res: both
\* borrow the MacroSet as `&self`.
VarMacrosAfterExpand(name, res) == var_macros

FnMacrosAfterExpand(name, res) == fn_macros

ExpandVarMacro(name) ==
  /\ ret' = Ret("expand_var_macro", name, FALSE, expand_var_macro(name), <<>>)
  /\ var_macros' = VarMacrosAfterExpand(name, ret'.res)
  /\ fn_macros' = FnMacrosAfterExpand(name, ret'.res)

ExpandFnMacro(name) ==
  /\ ret' = Ret("expand_fn_macro", name, FALSE, expand_fn_macro(name),
                IF name \in DOMAIN fn_macros /\ expand_fn_macro(name).t = "ok"
                THEN ParameterTokens(fn_macros[name].args) ELSE <<>>)
  /\ var_macros' = VarMacrosAfterExpand(name, ret'.res)
  /\ fn_macros' = FnMacrosAfterExpand(name, ret'.res)

Next ==
  \/ \E def \in VarDefinitions : define_var_macro(def[1], def[2])
  \/ \E def \in FnDefinitions : define_fn_macro(def[1], def[2], def[3])
  \/ \E name \in Names : undefine_macro(name)
  \/ \E name \in Names : ExpandVarMacro(name)
  \/ \E name \in Names : ExpandFnMacro(name)

Spec == Init /\ [][Next]_vars

(***************************************************************************)
(* The public interface called with other definitions: every further       *)
(* specification is the MacroSet driven by a catalogue of its own.         *)
(***************************************************************************)

NextOver(var_definitions, fn_definitions, names) ==
  \/ \E def \in var_definitions : define_var_macro(def[1], def[2])
  \/ \E def \in fn_definitions : define_fn_macro(def[1], def[2], def[3])
  \/ \E name \in names : undefine_macro(name)
  \/ \E name \in names : ExpandVarMacro(name)
  \/ \E name \in names : ExpandFnMacro(name)

\* tests::macro_set: V is defined as 3 and as 2, F(a) as F(V * (a)), G as F,
\* and the body T that is expanded is G(1).
RedefineVarDefinitions ==
  { <<"V", <<"3">>>>,
    <<"V", <<"2">>>>,
    <<"G", <<"F">>>>,
    <<"T", <<"G", "(", "1", ")">>>> }

RedefineFnDefinitions ==
  { <<"F", <<"a">>, <<"F", "(", "V", "*", "(", "a", ")", ")">>>>,
    <<"G", <<"a">>, <<"a">>>> }

RedefineNext == NextOver(RedefineVarDefinitions, RedefineFnDefinitions, Names)

RedefineSpec == Init /\ [][RedefineNext]_vars

(***************************************************************************)
(* Properties of the public interface.                                     *)
(***************************************************************************)

Expansions == { "expand_var_macro", "expand_fn_macro" }

\* The body of the variable-like macro that the last call named.
Body == var_macros[ret.name]

\* The tokens of a body as expand_var_macro returns them when nothing in the
\* body is replaced.
Unexpanded(body) == detokenize(<<>>, tokenize(<<>>, body))

Brackets == { "(", ")", "[", "]", "{", "}" }

\* C1: every call of expand_var_macro and expand_fn_macro terminates, also
\* for macros that refer to themselves or to each other: no expansion goes
\* on beyond the depth the model follows.
C1_ExpansionTerminates == ret.op \in Expansions => ret.res.t # "diverge"

\* An expansion of a macro that reaches its own name ended and left the name.
C1_RecursiveMacroExpanded ==
  /\ ret.op \in Expansions
  /\ ret.res.t = "ok"
  /\ \E j \in 1..Len(ret.res.toks) : ret.res.toks[j] = MacroToken("Id", ret.name, 0)

\* C2: an identifier that was left unexpanded because it names a macro whose
\* expansion is in progress stays unexpanded under all later rescans of the
\* same call: no expansion replaces a token that had been wrapped
\* NonReplacable.
C2_NonReplacedStaysUnexpanded == ret.op \in Expansions => ~ret.res.g

\* C3: no name is in both maps, and a definition of one kind removes the
\* definition of the other kind under the same name.
C3_OneKindPerName ==
  /\ DOMAIN var_macros \cap DOMAIN fn_macros = {}
  /\ ret.op = "define_var_macro" =>
       ret.name \in DOMAIN var_macros /\ ret.name \notin DOMAIN fn_macros
  /\ ret.op = "define_fn_macro" =>
       ret.name \in DOMAIN fn_macros /\ ret.name \notin DOMAIN var_macros

\* A function-like macro has been defined again as a variable-like macro.
C3_KindChanged ==
  /\ ret.op = "define_var_macro"
  /\ ret.prev = "fn"
  /\ ret.name \in DOMAIN var_macros

\* C4: define_var_macro and define_fn_macro return false exactly when no
\* macro of the name existed or a macro of the same kind existed with the
\* same parameters and the same tokens, whitespace and comments left out;
\* they return true in every other case.
C4_RedefinedReported ==
  /\ ret.op = "define_var_macro" =>
       (~ret.flag <=>
          \/ ret.old[1] = "none"
          \/ /\ ret.old[1] = "var"
             /\ NoWhitespace(ret.old[3]) = NoWhitespace(var_macros[ret.name]))
  /\ ret.op = "define_fn_macro" =>
       (~ret.flag <=>
          \/ ret.old[1] = "none"
          \/ /\ ret.old[1] = "fn"
             /\ NoWhitespace(ret.old[2]) = NoWhitespace(fn_macros[ret.name].args)
             /\ NoWhitespace(ret.old[3]) = NoWhitespace(fn_macros[ret.name].body))

\* C5: undefine_macro returns true iff the name was defined before the call
\* and leaves it in neither map; only a definition of a name puts it into a
\* map; expand_var_macro of a name that is not variable-like and
\* expand_fn_macro of a name that is not function-like return MacroNotFound.
C5_UndefinedIsNotFound ==
  [][/\ ret'.op = "undefine_macro" =>
          /\ ret'.flag <=> ret'.name \in DOMAIN var_macros \cup DOMAIN fn_macros
          /\ ret'.name \notin DOMAIN var_macros' \cup DOMAIN fn_macros'
     /\ \A n \in DOMAIN var_macros' \ DOMAIN var_macros :
          ret'.op = "define_var_macro" /\ ret'.name = n
     /\ \A n \in DOMAIN fn_macros' \ DOMAIN fn_macros :
          ret'.op = "define_fn_macro" /\ ret'.name = n
     /\ ret'.op = "expand_var_macro" /\ ret'.name \notin DOMAIN var_macros =>
          ret'.res.t = "err" /\ ret'.res.e = "MacroNotFound"
     /\ ret'.op = "expand_fn_macro" /\ ret'.name \notin DOMAIN fn_macros =>
          ret'.res.t = "err" /\ ret'.res.e = "MacroNotFound"]_vars

\* A function-like macro has been undefined.
C5_FnMacroUndefined ==
  /\ ret.op = "undefine_macro"
  /\ ret.flag
  /\ ret.prev = "fn"
  /\ ret.name \notin DOMAIN fn_macros

\* C6: expand_var_macro and expand_fn_macro leave both maps as they are,
\* whatever they return.
C6_ExpansionLeavesMaps ==
  [][ret'.op \in Expansions =>
       var_macros' = var_macros /\ fn_macros' = fn_macros]_vars

\* The expansion of a defined variable-like macro has failed.
C6_ExpansionFailed ==
  /\ ret.op = "expand_var_macro"
  /\ ret.prev = "var"
  /\ ret.res.t = "err"
  /\ ret.name \in DOMAIN var_macros

\* C7: expand_var_macro and expand_fn_macro return Ok or an ExpansionError
\* for every definition, they never panic.
C7_NoPanic == ret.op \in Expansions => ret.res.t # "panic"

\* body is an invocation of f with arguments that hold no bracket.
IsCall(body, f) ==
  /\ Len(body) >= 3
  /\ body[1] = f
  /\ body[2] = "("
  /\ body[Len(body)] = ")"
  /\ \A j \in 3..(Len(body) - 1) : body[j] \notin Brackets

\* The number of comma-separated arguments of such an invocation.
Given(body) == 1 + Cardinality({ j \in 3..(Len(body) - 1) : body[j] = "," })

\* C8: the expansion of a body that invokes a non-variadic function-like
\* macro of n parameters with m # n arguments returns FnMacroArgumentError
\* with the macro's name, n and m, unless n = 0 and the only argument is
\* empty.
C8_ArityErrorReturned ==
  \A f \in DOMAIN fn_macros :
    (/\ ret.op = "expand_var_macro"
     /\ ret.prev = "var"
     /\ IsCall(Body, f)
     /\ "..." \notin { fn_macros[f].args[j] : j \in 1..Len(fn_macros[f].args) }
     /\ Given(Body) # Len(fn_macros[f].args)
     /\ ~(fn_macros[f].args = <<>> /\ Body = <<f, "(", ")">>))
    => /\ ret.res.t = "err"
       /\ ret.res.e = "FnMacroArgumentError"
       /\ ret.res.name = f
       /\ ret.res.required = Len(fn_macros[f].args)
       /\ ret.res.given = Given(Body)

\* body starts an invocation of f that the end of body leaves open.
IsUnclosedCall(body, f) ==
  /\ Len(body) >= 2
  /\ body[1] = f
  /\ body[2] = "("
  /\ \A j \in 3..Len(body) : body[j] \notin { ")", "]", "}" }

\* body starts an invocation of f in which the first bracket is a closing
\* one that is not `)`.
IsUnopenedCall(body, f) ==
  /\ Len(body) >= 2
  /\ body[1] = f
  /\ body[2] = "("
  /\ \E j \in 3..Len(body) :
       /\ body[j] \in { "]", "}" }
       /\ \A q \in 3..(j - 1) : body[q] \notin Brackets

\* C9 as stated: the expansion of a body in which the invocation of a
\* function-like macro is left open returns UnclosedParenthesis, and
\* MissingOpenParenthesis when a closing bracket has no opener.
C9_ParenthesisErrorReturned ==
  \A f \in DOMAIN fn_macros :
    ret.op = "expand_var_macro" /\ ret.prev = "var" =>
      /\ IsUnclosedCall(Body, f) =>
           ret.res.t = "err" /\ ret.res.e = "UnclosedParenthesis"
      /\ IsUnopenedCall(Body, f) =>
           ret.res.t = "err" /\ ret.res.e = "MissingOpenParenthesis"

\* C9 amended: collect_args fails with UnclosedParenthesis or
\* MissingOpenParenthesis for such an invocation, and the expansion takes
\* the name as an identifier that is not invoked: a body that holds no other
\* macro name is returned as it is, and no expansion returns
\* UnclosedParenthesis or MissingOpenParenthesis.
C9_ParenthesisErrorNotReturned ==
  /\ ret.op \in Expansions =>
       ret.res.e \notin { "UnclosedParenthesis", "MissingOpenParenthesis" }
  /\ \A f \in DOMAIN fn_macros :
       (/\ ret.op = "expand_var_macro"
        /\ ret.prev = "var"
        /\ IsUnclosedCall(Body, f) \/ IsUnopenedCall(Body, f)
        /\ \A j \in 2..Len(Body) :
             Body[j] \notin DOMAIN var_macros \cup DOMAIN fn_macros)
       => /\ collect_args(tokenize(<<>>, Body), 2).t = "err"
          /\ collect_args(tokenize(<<>>, Body), 2).e =
               IF IsUnclosedCall(Body, f) THEN "UnclosedParenthesis"
               ELSE "MissingOpenParenthesis"
          /\ ret.res.t = "ok"
          /\ ret.res.toks = Unexpanded(Body)

\* A body that leaves the invocation of a function-like macro open has been
\* expanded.
C9_UnclosedCallExpanded ==
  /\ ret.op = "expand_var_macro"
  /\ ret.prev = "var"
  /\ \E f \in DOMAIN fn_macros : IsUnclosedCall(Body, f)
  /\ ret.res.t = "ok"

\* The token of body that follows position j, comments skipped ("" if none).
NextAfterComments(body, j) ==
  LET later == { q \in (j + 1)..Len(body) : ~is_comment(body[q]) }
  IN  IF later = {} THEN ""
      ELSE body[CHOOSE q \in later : \A r \in later : q <= r]

\* C10: the name of a function-like macro is replaced only if the next
\* token, comments skipped, is `(`: a body whose only macro names are names
\* of function-like macros that no `(` follows is returned as it is.
C10_FnMacroNameWithoutCallKept ==
  (/\ ret.op = "expand_var_macro"
   /\ ret.prev = "var"
   /\ \A j \in 1..Len(Body) :
        /\ Body[j] \notin DOMAIN var_macros
        /\ Body[j] # "##"
        /\ Body[j] \in DOMAIN fn_macros => NextAfterComments(Body, j) # "(")
  => /\ ret.res.t = "ok"
     /\ ret.res.toks = Unexpanded(Body)

\* The name of a function-like macro that no `(` follows has been expanded.
C10_FnMacroNameExpanded ==
  /\ ret.op = "expand_var_macro"
  /\ ret.prev = "var"
  /\ \E f \in DOMAIN fn_macros : Body = <<f>>
  /\ ret.res.t = "ok"
  /\ ret.res.toks = Unexpanded(Body)

\* Invocations of macros whose body holds `#`: tests::parse_stringify_nested,
\* parse_stringify_double_nested and parse_concat_string_prefix.
HashNames == Names \cup { "a" }

HashVarDefinitions ==
  { <<"T", <<"F", "(", "a", "+", "b", ")">>>>,
    <<"T", <<"F", "(", ")">>>>,
    <<"T", <<"F", "(", "V", ")">>>>,
    <<"T", <<"F", "(", "\"abc\"", ")">>>>,
    <<"T", <<"F", "(", "__LINE__", ")">>>>,
    <<"T", <<"F", "(", "u8", ")">>>>,
    <<"T", <<"G", "(", "a", "+", "b", ")">>>>,
    <<"V", <<"3">>>>,
    <<"V", <<"#", "1">>>>,
    <<"a", <<"1">>>> }

HashFnDefinitions ==
  { <<"F", <<"x">>, <<"#", "x">>>>,
    <<"F", <<"x">>, <<"x", "##", "#">>>>,
    <<"F", <<"x">>, <<"#", "1">>>>,
    <<"G", <<"x">>, <<"F", "(", "x", ")">>>> }

HashNext == NextOver(HashVarDefinitions, HashFnDefinitions, HashNames)

HashSpec == Init /\ [][HashNext]_vars

\* Bodies with `##` at their begin or end (tests::concat_begin_end) and
\* invocations with empty arguments of macros that paste their parameters
\* (tests::parse_concat_empty, parse_c_std_6_10_3_5_example_5).
ConcatVarDefinitions ==
  { <<"T", <<"##", "b">>>>,
    <<"T", <<"a", "##">>>>,
    <<"T", <<"##">>>>,
    <<"T", <<"/*c*/", "##", "b">>>>,
    <<"T", <<"a", "##", "/*c*/">>>>,
    <<"T", <<"/*c*/", "##", "/*c*/">>>>,
    <<"T", <<"a", "##", "b">>>>,
    <<"T", <<"1", "##", "\"abc\"">>>>,
    <<"T", <<".", "##", "1.5">>>>,
    <<"T", <<"F", "(", "a", ")">>>>,
    <<"T", <<"F", "(", ")">>>>,
    <<"T", <<"F", "(", ",", ")">>>>,
    <<"T", <<"F", "(", "1", ",", ")">>>>,
    <<"T", <<"F", "(", ",", "2", ")">>>>,
    <<"T", <<"G", "(", "1", ",", "2", ",", "3", ")">>>>,
    <<"T", <<"G", "(", ",", "2", ",", "3", ")">>>>,
    <<"T", <<"G", "(", "1", ",", ",", "3", ")">>>>,
    <<"T", <<"G", "(", "1", ",", "2", ",", ")">>>>,
    <<"T", <<"G", "(", "1", ",", ",", ")">>>>,
    <<"T", <<"G", "(", ",", "2", ",", ")">>>>,
    <<"T", <<"G", "(", ",", ",", "3", ")">>>>,
    <<"T", <<"G", "(", ",", ",", ")">>>> }

ConcatFnDefinitions ==
  { <<"F", <<"x">>, <<"##", "x">>>>,
    <<"F", <<"x">>, <<"x", "##">>>>,
    <<"F", <<"x">>, <<"##", "b">>>>,
    <<"F", <<"x">>, <<"x", "##", "b">>>>,
    <<"F", <<"x", "y">>, <<"x", "##", "y">>>>,
    <<"G", <<"x", "y", "z">>, <<"x", "##", "y", "##", "z">>>> }

ConcatNext == NextOver(ConcatVarDefinitions, ConcatFnDefinitions, Names)

ConcatSpec == Init /\ [][ConcatNext]_vars

(***************************************************************************)
(* stringify as a function: the initial states hold the token lists it is  *)
(* applied to (in ret.old[3], with `nested` in ret.flag), the one action   *)
(* applies it.                                                             *)
(***************************************************************************)

\* The longest token list stringify is applied to.
MaxStringifyLen == 3

StringifyAlphabet ==
  { "a", "1", "+", "(", ")", "[", "]", "{", "}", ".", ",", "/*c*/" }

StringifyInputs == UNION { [1..n -> StringifyAlphabet] : n \in 0..MaxStringifyLen }

StringifyInit ==
  /\ var_macros = <<>>
  /\ fn_macros = <<>>
  /\ \E tokens \in StringifyInputs, nested \in BOOLEAN :
       ret = [op |-> "new", name |-> "", flag |-> nested, res |-> Ok(<<>>),
              params |-> <<>>, prev |-> "none", old |-> <<"none", <<>>, tokens>>]

ApplyStringify ==
  /\ ret.op = "new"
  /\ ret' = [ret EXCEPT !.op = "stringify",
                        !.res = Ok(stringify(tokenize(<<>>, ret.old[3]), ret.flag))]
  /\ UNCHANGED <<var_macros, fn_macros>>

StringifyNext == ApplyStringify

StringifySpec == StringifyInit /\ [][StringifyNext]_vars

\* Macros with __VA_ARGS__ in their body, variadic or not, and invocations
\* of them (tests::parse_c_std_6_10_3_5_example_7, parse_stringify_var_args,
\* parse_concat_var_args).
VariadicVarDefinitions ==
  { <<"T", <<"F", "(", "1", ",", "2", ",", "3", ")">>>>,
    <<"T", <<"F", "(", "1", ",", "2", ")">>>>,
    <<"T", <<"F", "(", "1", ")">>>>,
    <<"T", <<"F", "(", ")">>>>,
    <<"T", <<"F", "(", "a", ",", ",", "2", ")">>>>,
    <<"T", <<"G", "(", "a", ",", "b", ")">>>>,
    <<"T", <<"__VA_ARGS__">>>>,
    <<"T", <<"V">>>>,
    <<"V", <<"1", "+", "__VA_ARGS__">>>>,
    <<"V", <<"1">>>> }

VariadicFnDefinitions ==
  { <<"F", <<"x", "...">>, <<"x", "+", "__VA_ARGS__">>>>,
    <<"F", <<"...">>, <<"__VA_ARGS__">>>>,
    <<"F", <<"x", "y", "...">>, <<"y", "+", "__VA_ARGS__", "+", "x">>>>,
    <<"F", <<"x">>, <<"x", "+", "__VA_ARGS__">>>>,
    <<"G", <<"...">>, <<"#", "__VA_ARGS__">>>>,
    <<"G", <<"...", "x">>, <<"__VA_ARGS__">>>> }

VariadicNext == NextOver(VariadicVarDefinitions, VariadicFnDefinitions, Names)

VariadicSpec == Init /\ [][VariadicNext]_vars

(***************************************************************************)
(* Token::concat as a function: the initial states hold the two operands   *)
(* as raw tokens (in ret.old[3]; ret.flag says that the left operand is    *)
(* wrapped NonReplacable), the one action classifies and pastes them.      *)
(* The operands are identifiers, numbers, a string and a char literal and  *)
(* punctuation (tests::parse_concat, parse_concat_string_prefix,           *)
(* parse_concat_ident_int, parse_concat_ident_float,                       *)
(* parse_concat_dot_float, parse_concat_dot_int,                           *)
(* parse_c_std_6_10_3_3_example).                                          *)
(***************************************************************************)

PasteOperands ==
  { "a", "u8", "L", "1", "1.5", "1e4", "\"abc\"", "'c'", ".", "-", ">", "+", "#" }

PasteInit ==
  /\ var_macros = <<>>
  /\ fn_macros = <<>>
  /\ \E lhs \in PasteOperands, rhs \in PasteOperands, wrapped \in BOOLEAN :
       ret = [op |-> "new", name |-> "", flag |-> wrapped, res |-> Ok(<<>>),
              params |-> <<>>, prev |-> "none", old |-> <<"none", <<>>, <<lhs, rhs>>>>]

ApplyConcat ==
  /\ ret.op = "new"
  /\ ret' = [ret EXCEPT
               !.op = "concat",
               !.res = concat(IF ret.flag THEN NonReplacable(from_str(ret.old[3][1]))
                              ELSE from_str(ret.old[3][1]),
                              from_str(ret.old[3][2]))]
  /\ UNCHANGED <<var_macros, fn_macros>>

PasteNext == ApplyConcat

PasteSpec == PasteInit /\ [][PasteNext]_vars

(***************************************************************************)
(* Function-like macros expanded as templates (tests::macro_set): the      *)
(* parameters have the names of variable-like macros, the bodies name      *)
(* variable-like macros, the macro itself and another function-like macro. *)
(***************************************************************************)

TemplateNames == { "V", "F", "G", "a", "b" }

TemplateVarDefinitions ==
  { <<"V", <<"a", "+", "b">>>>,
    <<"V", <<"b">>>>,
    <<"a", <<"2">>>>,
    <<"a", <<"a", "+", "1">>>>,
    <<"b", <<"3">>>> }

TemplateFnDefinitions ==
  { <<"F", <<"a", "b">>, <<"a", "+", "V", "+", "b">>>>,
    <<"F", <<"x", "...">>, <<"x", "+", "__VA_ARGS__", "+", "V">>>>,
    <<"F", <<"...">>, <<"__VA_ARGS__">>>>,
    <<"F", <<"a">>, <<"F", "(", "V", "*", "(", "a", ")", ")">>>>,
    <<"F", <<"x", "y">>, <<"x", "##", "y", "+", "b">>>>,
    <<"F", <<"a">>, <<"G", "(", "a", ")", "+", "V">>>>,
    <<"G", <<"b">>, <<"b">>>> }

TemplateNext == NextOver(TemplateVarDefinitions, TemplateFnDefinitions, TemplateNames)

TemplateSpec == Init /\ [][TemplateNext]_vars

(***************************************************************************)
(* BuiltInType::to_rust_ty and BuiltInType::from_rust_ty (src/ast/ty.rs).  *)
(* A syn::Path is a record [leading_colon, segments], an Option is a       *)
(* sequence of length 0 or 1.  A CodegenContext is a record of what its    *)
(* methods return: ffi_prefix, size_t (resolve_ty("size_t")) and           *)
(* rust_target.  The initial states hold a BuiltInType (ret.name) and a    *)
(* context (ret.old[3]).                                                   *)
(***************************************************************************)

BuiltInTypes ==
  { "Float", "Double", "LongDouble", "Bool", "Char", "SChar", "UChar", "Char8T",
    "Char16T", "Char32T", "Short", "UShort", "Int", "UInt", "Long", "ULong",
    "LongLong", "ULongLong", "SizeT", "SSizeT", "Void" }

Path(leading_colon, segments) == [leading_colon |-> leading_colon, segments |-> segments]

\* The chain of `id == ...` comparisons of from_rust_ty.
RustTyNames ==
  { <<"f32", "Float">>, <<"f64", "Double">>, <<"f128", "LongDouble">>,
    <<"bool", "Bool">>, <<"c_char", "Char">>, <<"c_schar", "SChar">>,
    <<"c_uchar", "UChar">>, <<"u8", "Char8T">>, <<"u16", "Char16T">>,
    <<"u32", "Char32T">>, <<"c_short", "Short">>, <<"c_ushort", "UShort">>,
    <<"c_int", "Int">>, <<"c_uint", "UInt">>, <<"c_long", "Long">>,
    <<"c_ulong", "ULong">>, <<"c_longlong", "LongLong">>,
    <<"c_ulonglong", "ULongLong">>, <<"size_t", "SizeT">>,
    <<"ssize_t", "SSizeT">>, <<"c_void", "Void">> }

\* ffi_prefix.segments is a prefix of the segments of ty.
HasPrefix(segments, prefix) ==
  /\ Len(prefix) <= Len(segments)
  /\ \A j \in 1..Len(prefix) : segments[j] = prefix[j]

\* from_rust_ty of a TypePath without qself: Some(type) or None, as a
\* sequence.
from_rust_ty(ty, ffi_prefix) ==
  LET prefix == IF ffi_prefix = <<>> THEN <<>> ELSE ffi_prefix[1].segments
  IN  IF ffi_prefix # <<>> /\ ty.leading_colon # ffi_prefix[1].leading_colon THEN <<>>
      ELSE IF ~HasPrefix(ty.segments, prefix) THEN <<>>
      ELSE IF Len(ty.segments) # Len(prefix) + 1 THEN <<>>
      ELSE IF \E e \in RustTyNames : e[1] = ty.segments[Len(prefix) + 1]
      THEN <<(CHOOSE e \in RustTyNames : e[1] = ty.segments[Len(prefix) + 1])[2]>>
      ELSE <<>>

\* parse_quote! { #(#ffi_prefix::)*id }
Prefixed(ffi_prefix, id) ==
  IF ffi_prefix = <<>> THEN Path(FALSE, <<id>>)
  ELSE Path(ffi_prefix[1].leading_colon, Append(ffi_prefix[1].segments, id))

to_rust_ty(self, ctx) ==
  IF self = "Float" THEN Path(FALSE, <<"f32">>)
  ELSE IF self \in { "Double", "LongDouble" } THEN Path(FALSE, <<"f64">>)
  ELSE IF self = "Bool" THEN Path(FALSE, <<"bool">>)
  ELSE IF self = "Char8T" THEN Path(FALSE, <<"u8">>)
  ELSE IF self = "Char16T" THEN Path(FALSE, <<"u16">>)
  ELSE IF self = "Char32T" THEN Path(FALSE, <<"u32">>)
  ELSE IF self = "SizeT"
  THEN IF ctx.size_t # <<>> THEN ctx.size_t[1]
       ELSE IF ctx.rust_target = <<>> \/ ctx.rust_target[1] = "nightly"
       THEN Prefixed(ctx.ffi_prefix, "c_size_t")
       ELSE Path(FALSE, <<"usize">>)
  ELSE IF self = "SSizeT" THEN Prefixed(ctx.ffi_prefix, "ssize_t")
  ELSE Prefixed(ctx.ffi_prefix,
         (CHOOSE e \in RustTyNames : e[2] = self)[1])

\* The contexts of the model: the prefixes of tests::parse_builtin_from_syn_type
\* and one without leading colon, size_t resolved or not, a nightly target, a
\* stable one or none.
FfiPrefixes ==
  { <<>>, <<Path(TRUE, <<"core", "ffi">>)>>, <<Path(TRUE, <<"std", "ffi">>)>>,
    <<Path(FALSE, <<"libc">>)>> }

Contexts ==
  [ ffi_prefix : FfiPrefixes,
    size_t : { <<>>, <<Path(FALSE, <<"usize">>)>>, <<Path(FALSE, <<"size_t">>)>> },
    rust_target : { <<>>, <<"nightly">>, <<"1.64">>} ]

BuiltInInit ==
  /\ var_macros = <<>>
  /\ fn_macros = <<>>
  /\ \E self \in BuiltInTypes, ctx \in Contexts :
       ret = [op |-> "new", name |-> self, flag |-> FALSE, res |-> <<>>,
              params |-> <<>>, prev |-> "none", old |-> <<"none", <<>>, ctx>>]

\* ret.params is the syn::Type returned.
ApplyToRustTy ==
  /\ ret.op = "new"
  /\ ret' = [ret EXCEPT !.op = "to_rust_ty",
                        !.params = to_rust_ty(ret.name, ret.old[3])]
  /\ UNCHANGED <<var_macros, fn_macros>>

\* from_rust_ty of the type returned, with the prefix of the same context.
ApplyFromRustTy ==
  /\ ret.op = "to_rust_ty"
  /\ ret' = [ret EXCEPT !.op = "from_rust_ty",
                        !.res = from_rust_ty(ret.params, ret.old[3].ffi_prefix)]
  /\ UNCHANGED <<var_macros, fn_macros>>

BuiltInNext == ApplyToRustTy \/ ApplyFromRustTy

BuiltInSpec == BuiltInInit /\ [][BuiltInNext]_vars

(***************************************************************************)
(* Expr::finish (src/ast/expr.rs).  An expression is a record with k one   *)
(* of "Literal" [lit], "Unary" [op, expr], "Binary" [op, lhs, rhs],        *)
(* "Cast" [expr, ty] and "Variable" [name].  A literal is a record with c  *)
(* one of "Int" [value, suffix], "Float" [kind, n, d] (the value n / d)    *)
(* and "Char" [value].  A Type is a record [k, name, is_struct] with k     *)
(* "BuiltIn" or "Identifier"; an Option is a sequence of length 0 or 1.    *)
(* The result of finish is [t, node, ty, e]: node is what `*self` holds    *)
(* when finish returns, ty the Option<Type> of an Ok and e the error.      *)
(***************************************************************************)

LiteralExpr(lit) == [k |-> "Literal", lit |-> lit]

Variable(name) == [k |-> "Variable", name |-> name]

\* The identifiers of the model's expressions.
ExprIdentifiers == { "a", "b" }

UnaryExpr(op, expr) == [k |-> "Unary", op |-> op, expr |-> expr]

BinaryExpr(lhs, op, rhs) == [k |-> "Binary", op |-> op, lhs |-> lhs, rhs |-> rhs]

CastExpr(expr, ty) == [k |-> "Cast", expr |-> expr, ty |-> ty]

LitInt(value, suffix) == [c |-> "Int", value |-> value, suffix |-> suffix]

LitFloat(kind, n, d) == [c |-> "Float", kind |-> kind, n |-> n, d |-> d]

LitChar(value) == [c |-> "Char", value |-> value]

BuiltIn(name) == [k |-> "BuiltIn", name |-> name, is_struct |-> FALSE]

FinishOk(node, ty) == [t |-> "ok", node |-> node, ty |-> ty, e |-> ""]

FinishErr(node, e) == [t |-> "err", node |-> node, ty |-> <<>>, e |-> e]

\* Lit::finish: the type of a literal.
LitType(lit) ==
  IF lit.c = "Int" THEN (IF lit.suffix = <<>> THEN <<>> ELSE <<BuiltIn(lit.suffix[1])>>)
  ELSE IF lit.c = "Float" THEN <<BuiltIn(lit.kind)>>
  ELSE <<BuiltIn("Char")>>

Abs(n) == IF n < 0 THEN -n ELSE n

RECURSIVE Gcd(_, _)
Gcd(a, b) == IF b = 0 THEN a ELSE Gcd(b, a % b)

\* The float of the value n / d, d # 0, in lowest terms.
Ratio(kind, n, d) ==
  LET g == Gcd(Abs(n), Abs(d))
      sign == IF d < 0 THEN -1 ELSE 1
  IN  LitFloat(kind, sign * (n \div g), sign * (d \div g))

\* i128 division and remainder truncate toward zero.
TruncDiv(a, b) == IF (a < 0) = (b < 0) THEN Abs(a) \div Abs(b) ELSE -(Abs(a) \div Abs(b))

TruncRem(a, b) == a - b * TruncDiv(a, b)

\* The operators of LitInt on two literals without suffix.
IntArithmetic(op, lhs, rhs) ==
  LitInt(IF op = "Add" THEN lhs.value + rhs.value
         ELSE IF op = "Sub" THEN lhs.value - rhs.value
         ELSE IF op = "Mul" THEN lhs.value * rhs.value
         ELSE IF op = "Div" THEN TruncDiv(lhs.value, rhs.value)
         ELSE TruncRem(lhs.value, rhs.value),
         lhs.suffix)

\* The operators of LitFloat on two literals of one kind.
FloatArithmetic(op, lhs, rhs) ==
  IF op = "Add" THEN Ratio(lhs.kind, lhs.n * rhs.d + rhs.n * lhs.d, lhs.d * rhs.d)
  ELSE IF op = "Sub" THEN Ratio(lhs.kind, lhs.n * rhs.d - rhs.n * lhs.d, lhs.d * rhs.d)
  ELSE IF op = "Mul" THEN Ratio(lhs.kind, lhs.n * rhs.n, lhs.d * rhs.d)
  ELSE Ratio(lhs.kind, lhs.n * rhs.d, lhs.d * rhs.n)

\* Option::xor
Xor(a, b) == IF a # <<>> /\ b = <<>> THEN a ELSE IF a = <<>> /\ b # <<>> THEN b ELSE <<>>

\* The arm of finish for Self::Literal.
finish_literal(self) ==
  IF self.lit.c = "Char"
  THEN FinishOk(CastExpr(LiteralExpr(self.lit), LitType(self.lit)[1]), LitType(self.lit))
  ELSE FinishOk(self, LitType(self.lit))

\* The suffix of the literal that unary minus makes.
NegatedSuffix(suffix) ==
  IF suffix = <<>> THEN <<>>
  ELSE IF suffix[1] \in { "UChar", "SChar" } THEN <<"SChar">>
  ELSE IF suffix[1] \in { "UInt", "Int" } THEN <<"Int">>
  ELSE IF suffix[1] \in { "ULong", "Long" } THEN <<"Long">>
  ELSE IF suffix[1] \in { "ULongLong", "LongLong" } THEN <<"LongLong">>
  ELSE <<>>

\* The arm of finish for Self::Unary: expr is the result of finish for the
\* operand (UnaryExpr::finish), whose type is the type returned.
finish_unary(op, expr) ==
  LET e == expr.node
      ty == expr.ty
      is_lit(c) == e.k = "Literal" /\ e.lit.c = c
  IN  IF expr.t # "ok" THEN FinishErr(UnaryExpr(op, e), expr.e)
      ELSE IF op = "Plus" /\ (is_lit("Int") \/ is_lit("Float")) THEN FinishOk(e, ty)
      ELSE IF op = "Minus" /\ is_lit("Int")
      THEN FinishOk(LiteralExpr(LitInt(-e.lit.value, NegatedSuffix(e.lit.suffix))), ty)
      ELSE IF op = "Minus" /\ is_lit("Float")
      THEN FinishOk(LiteralExpr(LitFloat(e.lit.kind, -e.lit.n, e.lit.d)), ty)
      ELSE IF op = "Not" /\ is_lit("Int") /\ e.lit.suffix = <<>>
      THEN FinishOk(LiteralExpr(LitInt(IF e.lit.value = 0 THEN 1 ELSE 0, <<>>)), ty)
      ELSE IF op = "Not" /\ is_lit("Float")
      THEN FinishOk(LiteralExpr(LitInt(IF e.lit.n = 0 THEN 1 ELSE 0, <<>>)), ty)
      ELSE IF op = "Not"
      THEN IF ty # <<BuiltIn("Bool")>>
           THEN FinishOk(BinaryExpr(e, "Eq", LiteralExpr(LitInt(0, <<>>))), ty)
           ELSE FinishOk(UnaryExpr(op, e), ty)
      ELSE IF op = "Comp" /\ is_lit("Float")
      THEN FinishErr(UnaryExpr(op, e), "UnsupportedExpression")
      ELSE FinishOk(UnaryExpr(op, e), ty)

FoldedFloat == { "Mul", "Div", "Add", "Sub" }

FoldedInt == { "Mul", "Div", "Rem", "Add", "Sub" }

Comparisons == { "Eq", "Neq", "And", "Or", "Lt", "Lte", "Gt", "Gte" }

\* The arm of finish for Self::Binary: lhs and rhs are the results of finish
\* for the operands (BinaryExpr::finish).
finish_binary(op, lhs, rhs) ==
  LET l == lhs.node
      r == rhs.node
      both(c) == /\ l.k = "Literal" /\ l.lit.c = c
                 /\ r.k = "Literal" /\ r.lit.c = c
  IN  IF lhs.t # "ok" THEN FinishErr(BinaryExpr(l, op, r), lhs.e)
      ELSE IF rhs.t # "ok" THEN FinishErr(BinaryExpr(l, op, r), rhs.e)
      ELSE IF op \in FoldedFloat /\ both("Float")
      THEN finish_literal(LiteralExpr(FloatArithmetic(op, l.lit, r.lit)))
      ELSE IF op \in FoldedInt /\ both("Int")
      THEN finish_literal(LiteralExpr(IntArithmetic(op, l.lit, r.lit)))
      ELSE IF op \in Comparisons THEN FinishOk(BinaryExpr(l, op, r), <<BuiltIn("Bool")>>)
      ELSE FinishOk(BinaryExpr(l, op, r),
                    IF lhs.ty = rhs.ty THEN lhs.ty ELSE Xor(lhs.ty, rhs.ty))

\* Type::Identifier { name, is_struct }
TypeIdentifier(name, is_struct) == [k |-> "Identifier", name |-> name, is_struct |-> is_struct]

\* Type::Path { leading_colon, segments }
TypePath(leading_colon, segments) ==
  [k |-> "Path", leading_colon |-> leading_colon, segments |-> segments]

\* Type::from_rust_ty for a syn::Type::Path.
type_from_rust_ty(ty, ffi_prefix) ==
  IF from_rust_ty(ty, ffi_prefix) # <<>> THEN BuiltIn(from_rust_ty(ty, ffi_prefix)[1])
  ELSE IF ~ty.leading_colon /\ Len(ty.segments) = 1
  THEN TypeIdentifier(ty.segments[1], FALSE)
  ELSE TypePath(ty.leading_colon, ty.segments)

\* Type::finish: the type that `*self` holds afterwards.  ctx.resolve_ty is
\* the oracle's answer for each name, an Option of a syn path.
type_finish(self, ctx) ==
  IF self.k = "Identifier" /\ ctx.resolve_ty[self.name] # <<>>
  THEN type_from_rust_ty(ctx.resolve_ty[self.name][1], ctx.ffi_prefix)
  ELSE self

\* The operator of the binary operation a cast of a unary operation is taken
\* as, none for the other unary operators.
AmbiguousOp(op) ==
  IF op = "Plus" THEN <<"Add">>
  ELSE IF op = "Minus" THEN <<"Sub">>
  ELSE IF op = "Deref" THEN <<"Mul">>
  ELSE IF op = "AddrOf" THEN <<"BitAnd">>
  ELSE <<>>

\* The test of the Cast arm for `(var1) & var2` taken as `(ty)&var`: expr is
\* the operand after its finish.
IsAmbiguousCast(expr, ty, ctx) ==
  /\ expr.k = "Unary"
  /\ ty.k = "Identifier"
  /\ ~ty.is_struct
  /\ ctx.resolve_ty[ty.name] = <<>>
  /\ AmbiguousOp(expr.op) # <<>>

\* The arm of finish for Self::Cast that is no binary operation: expr is the
\* result of finish for the operand.
finish_cast(expr, ty, ctx) ==
  IF expr.t # "ok" THEN FinishErr(CastExpr(expr.node, ty), expr.e)
  ELSE FinishOk(CastExpr(expr.node, type_finish(ty, ctx)), <<type_finish(ty, ctx)>>)

BuiltInMacros ==
  [ __SCHAR_MAX__ |-> "SChar", __SHRT_MAX__ |-> "Short", __INT_MAX__ |-> "Int",
    __LONG_MAX__ |-> "Long", __LONG_LONG_MAX__ |-> "LongLong" ]

\* The arm of finish for Self::Variable whose name is no macro argument and
\* no literal: ctx.eval_variable is the oracle's answer for each name,
\* [t, expr, ty, e].
finish_variable(self, ctx) ==
  IF ctx.eval_variable[self.name].t = "ok"
  THEN FinishOk(ctx.eval_variable[self.name].expr, ctx.eval_variable[self.name].ty)
  ELSE IF self.name \in DOMAIN BuiltInMacros
  THEN FinishOk(self, <<BuiltIn(BuiltInMacros[self.name])>>)
  ELSE FinishErr(self, ctx.eval_variable[self.name].e)

RECURSIVE finish(_, _)
finish(self, ctx) ==
  IF self.k = "Literal" THEN finish_literal(self)
  ELSE IF self.k = "Variable" THEN finish_variable(self, ctx)
  ELSE IF self.k = "Unary" THEN finish_unary(self.op, finish(self.expr, ctx))
  ELSE IF self.k = "Binary"
  THEN finish_binary(self.op, finish(self.lhs, ctx), finish(self.rhs, ctx))
  ELSE LET expr == finish(self.expr, ctx)
       IN  IF expr.t = "ok" /\ IsAmbiguousCast(expr.node, self.ty, ctx)
           THEN finish(BinaryExpr(Variable(self.ty.name), AmbiguousOp(expr.node.op)[1],
                                  expr.node.expr), ctx)
           ELSE finish_cast(expr, self.ty, ctx)

\* A context whose oracle knows no type and no variable.
EmptyContext ==
  [ resolve_ty |-> [name \in ExprIdentifiers \cup {"T"} |-> <<>>],
    eval_variable |-> [name \in ExprIdentifiers \cup {"T"} |->
                         [t |-> "err", expr |-> <<>>, ty |-> <<>>, e |-> "UnsupportedExpression"]],
    ffi_prefix |-> <<>> ]

(***************************************************************************)
(* finish applied to expressions made of literals and arithmetic           *)
(* operators: the initial states hold the expression (ret.old[3]), the     *)
(* first action applies finish (ret.res), the second applies it to the     *)
(* node the first one left (ret.params).                                   *)
(***************************************************************************)

\* The literals that are operands of a binary operator.
OperandLiterals ==
  { LitInt(v, <<>>) : v \in 1..3 }
    \cup { LitFloat("Double", 3, 2), LitFloat("Double", 1, 2) }
    \cup { LitChar("a") }

Literals == OperandLiterals \cup { LitInt(v, <<"UInt">>) : v \in 1..3 }

UnaryOperators == { "Plus", "Minus", "Not", "Comp" }

BinaryExpressions ==
  { BinaryExpr(LiteralExpr(l), op, LiteralExpr(r)) :
      l \in OperandLiterals, op \in FoldedInt, r \in OperandLiterals }

LiteralExpressions ==
  { LiteralExpr(l) : l \in Literals }
    \cup BinaryExpressions
    \cup { UnaryExpr(op, LiteralExpr(l)) : op \in UnaryOperators, l \in Literals }
    \cup { UnaryExpr(op, e) : op \in UnaryOperators, e \in BinaryExpressions }

FinishInit ==
  /\ var_macros = <<>>
  /\ fn_macros = <<>>
  /\ \E expr \in LiteralExpressions :
       ret = [op |-> "new", name |-> "", flag |-> FALSE, res |-> <<>>,
              params |-> <<>>, prev |-> "none", old |-> <<"none", <<>>, expr>>]

ApplyFinish ==
  /\ ret.op = "new"
  /\ ret' = [ret EXCEPT !.op = "finish", !.res = finish(ret.old[3], EmptyContext)]
  /\ UNCHANGED <<var_macros, fn_macros>>

ApplyFinishAgain ==
  /\ ret.op = "finish"
  /\ ret.res.t = "ok"
  /\ ret' = [ret EXCEPT !.op = "finish_again", !.params = finish(ret.res.node, EmptyContext)]
  /\ UNCHANGED <<var_macros, fn_macros>>

FinishNext == ApplyFinish \/ ApplyFinishAgain

FinishSpec == FinishInit /\ [][FinishNext]_vars

(***************************************************************************)
(* Invocations whose arguments name macros: the argument of a parameter    *)
(* next to `##` (tests::parse_concat) and the nested invocation f(f(z)) of *)
(* tests::parse_c_std_6_10_3_5_example_3.                                  *)
(***************************************************************************)

ArgumentNames == { "T", "V", "F", "a", "z" }

ArgumentVarDefinitions ==
  { <<"T", <<"F", "(", "a", ",", "b", ")">>>>,
    <<"T", <<"F", "(", "F", "(", "z", ")", ")">>>>,
    <<"T", <<"F", "(", "T", ")">>>>,
    <<"a", <<"1">>>>,
    <<"V", <<"2">>>>,
    <<"z", <<"z", "[", "0", "]">>>> }

ArgumentFnDefinitions ==
  { <<"F", <<"x", "y">>, <<"x", "##", "y">>>>,
    <<"F", <<"x", "y">>, <<"y", "##", "x">>>>,
    <<"F", <<"x", "y">>, <<"x", "+", "y">>>>,
    <<"F", <<"a">>, <<"F", "(", "V", "*", "(", "a", ")", ")">>>> }

ArgumentNext == NextOver(ArgumentVarDefinitions, ArgumentFnDefinitions, ArgumentNames)

ArgumentSpec == Init /\ [][ArgumentNext]_vars

(***************************************************************************)
(* Invocations that span the end of an expansion: tests::parse_disjunct_fn *)
(* and tests::parse_disjunct_fn_call.                                      *)
(***************************************************************************)

DisjunctVarDefinitions ==
  { <<"V", <<"F", "(", "1", ",">>>>,
    <<"V", <<"F">>>>,
    <<"T", <<"V", "2", ")">>>>,
    <<"T", <<"4", "*", "V", "2", ")">>>>,
    <<"T", <<"G", "(", ")", "(", "3", ",", "1", ")">>>>,
    <<"T", <<"V", "(", "3", ",", "1", ")">>>> }

DisjunctFnDefinitions ==
  { <<"F", <<"a", "b">>, <<"a", "+", "b">>>>,
    <<"G", <<>>, <<"F">>>>,
    <<"G", <<>>, <<"V", "2", ")">>>> }

DisjunctNext == NextOver(DisjunctVarDefinitions, DisjunctFnDefinitions, Names)

DisjunctSpec == Init /\ [][DisjunctNext]_vars

(***************************************************************************)
(* `#` applied to __LINE__ and __FILE__, in the body that is expanded and  *)
(* inside the expansion of another function-like macro:                    *)
(* tests::parse_stringify_double_nested.                                   *)
(***************************************************************************)

LineVarDefinitions ==
  { <<"T", <<"F", "(", "__LINE__", ")">>>>,
    <<"T", <<"G", "(", "__LINE__", ")">>>>,
    <<"T", <<"F", "(", "__FILE__", ")">>>>,
    <<"T", <<"G", "(", "__FILE__", ")">>>>,
    <<"T", <<"G", "(", "V", ")">>>>,
    <<"V", <<"__LINE__">>>> }

LineFnDefinitions ==
  { <<"F", <<"s">>, <<"#", "s">>>>,
    <<"G", <<"s">>, <<"F", "(", "s", ")">>>>,
    <<"G", <<"s">>, <<"#", "s">>>> }

LineNext == NextOver(LineVarDefinitions, LineFnDefinitions, Names)

LineSpec == Init /\ [][LineNext]_vars

(***************************************************************************)
(* TypeQualifier::or and Type::qualify (src/ast/ty.rs).  A pointer type is *)
(* [k |-> "Ptr", ty], a qualified type [k |-> "Qualified", ty, qualifier]. *)
(***************************************************************************)

TypeQualifier == { "Const", "Volatile", "ConstVolatile" }

is_const(self) == self \in { "Const", "ConstVolatile" }

is_volatile(self) == self \in { "Volatile", "ConstVolatile" }

\* TypeQualifier::or
or(self, other) ==
  IF self = "Const" /\ other = "Const" THEN "Const"
  ELSE IF self = "Volatile" /\ other = "Volatile" THEN "Const"
  ELSE "ConstVolatile"

Ptr(ty) == [k |-> "Ptr", ty |-> ty]

Qualified(ty, qualifier) == [k |-> "Qualified", ty |-> ty, qualifier |-> qualifier]

\* Type::qualify
qualify(self, qualifier) ==
  IF self.k = "Qualified" THEN Qualified(self.ty, or(self.qualifier, qualifier))
  ELSE Qualified(self, qualifier)

\* The most qualifiers and `*` that follow the first type of a parsed type.
MaxQualifiers == 3

\* The types without a qualifier that `ty` parses, here the built-in ones.
UnqualifiedTypes == { BuiltIn("Void"), BuiltIn("Float"), BuiltIn("Int") }

\* ret.res is the Type built so far, ret.old[2] the qualifiers and "*" that
\* were applied to ret.old[3], ret.params the Type before the last step.
QualifyInit ==
  /\ var_macros = <<>>
  /\ fn_macros = <<>>
  /\ \E self \in UnqualifiedTypes :
       ret = [op |-> "new", name |-> "", flag |-> FALSE, res |-> self,
              params |-> self, prev |-> "none", old |-> <<"none", <<>>, self>>]

\* ty.qualify(qualifier), as Type::parse and `ty` call it for each qualifier.
ApplyQualify ==
  /\ Len(ret.old[2]) < MaxQualifiers
  /\ \E qualifier \in TypeQualifier :
       ret' = [ret EXCEPT !.op = "qualify",
                          !.name = qualifier,
                          !.params = ret.res,
                          !.res = qualify(ret.res, qualifier),
                          !.old = <<"none", Append(ret.old[2], qualifier), ret.old[3]>>]
  /\ UNCHANGED <<var_macros, fn_macros>>

\* Self::Ptr { ty: Box::new(acc) } of the fold in Type::parse.
ApplyPtr ==
  /\ Len(ret.old[2]) < MaxQualifiers
  /\ ret' = [ret EXCEPT !.op = "ptr",
                        !.name = "",
                        !.params = ret.res,
                        !.res = Ptr(ret.res),
                        !.old = <<"none", Append(ret.old[2], "*"), ret.old[3]>>]
  /\ UNCHANGED <<var_macros, fn_macros>>

QualifyNext == ApplyQualify \/ ApplyPtr

QualifySpec == QualifyInit /\ [][QualifyNext]_vars

(***************************************************************************)
(* Expr::parse_term_prec1 (src/ast/expr.rs): the postfix accesses that     *)
(* follow a factor.  The factor is a variable, an index and an argument    *)
(* are expressions of one token.  The result is [t, expr, rest]: t is      *)
(* "ok" or "err", rest the tokens that are left.                           *)
(***************************************************************************)

FunctionCall(name, args) == [k |-> "FunctionCall", name |-> name, args |-> args]

FieldAccess(expr, field) == [k |-> "FieldAccess", expr |-> expr, field |-> field]

ArrayAccess(expr, index) == [k |-> "ArrayAccess", expr |-> expr, index |-> index]

AccessFn(args) == [a |-> "Fn", args |-> args]

AccessField(field, deref) == [a |-> "Field", field |-> field, deref |-> deref]

AccessArray(index) == [a |-> "Array", index |-> index]

AccessUnaryOp(op) == [a |-> "UnaryOp", op |-> op]

\* parse_factor on one token: a variable or the literal 0.
Factor(token) ==
  IF token \in ExprIdentifiers THEN Variable(token) ELSE LiteralExpr(LitInt(0, ""))

\* The `alt` of the fold in parse_term_prec1: the access the tokens from pos
\* on begin with and the position behind it, or none.
NextAccess(tokens, pos) ==
  LET at(j) == IF pos + j <= Len(tokens) THEN tokens[pos + j] ELSE ""
      one(j) == at(j) \in ExprIdentifiers \cup { "0" }
  IN  IF at(0) = "(" /\ at(1) = ")"
      THEN [found |-> TRUE, access |-> AccessFn(<<>>), next |-> pos + 2]
      ELSE IF at(0) = "(" /\ one(1) /\ at(2) = ")"
      THEN [found |-> TRUE, access |-> AccessFn(<<Factor(at(1))>>), next |-> pos + 3]
      ELSE IF at(0) = "." /\ at(1) \in ExprIdentifiers
      THEN [found |-> TRUE, access |-> AccessField(at(1), FALSE), next |-> pos + 2]
      ELSE IF at(0) = "[" /\ one(1) /\ at(2) = "]"
      THEN [found |-> TRUE, access |-> AccessArray(Factor(at(1))), next |-> pos + 3]
      ELSE IF at(0) = "->" /\ at(1) \in ExprIdentifiers
      THEN [found |-> TRUE, access |-> AccessField(at(1), TRUE), next |-> pos + 2]
      ELSE IF at(0) = "++"
      THEN [found |-> TRUE, access |-> AccessUnaryOp("PostInc"), next |-> pos + 1]
      ELSE IF at(0) = "--"
      THEN [found |-> TRUE, access |-> AccessUnaryOp("PostDec"), next |-> pos + 1]
      ELSE [found |-> FALSE, access |-> AccessFn(<<>>), next |-> pos]

\* The closure of the fold: acc is [t, expr, was_unary_op].
FoldAccess(acc, access) ==
  IF acc.t # "ok" THEN acc
  ELSE LET expr == acc.expr
           was_unary_op == acc.was_unary_op
           is_unary_op == access.a = "UnaryOp"
           ok(e) == [t |-> "ok", expr |-> e, was_unary_op |-> is_unary_op]
       IN  IF access.a = "UnaryOp" /\ ~was_unary_op
           THEN ok(UnaryExpr(access.op, expr))
           ELSE IF expr.k = "Variable" /\ access.a = "Fn"
           THEN ok(FunctionCall(expr.name, access.args))
           ELSE IF access.a = "Field" /\ (~was_unary_op \/ access.deref)
           THEN ok(FieldAccess(IF access.deref THEN UnaryExpr("Deref", expr) ELSE expr,
                               access.field))
           ELSE IF access.a = "Array" /\ ~was_unary_op
           THEN ok(ArrayAccess(expr, access.index))
           ELSE [t |-> "err", expr |-> expr, was_unary_op |-> is_unary_op]

\* fold_many0: accesses are folded as long as the tokens begin with one.
RECURSIVE FoldMany(_, _, _)
FoldMany(tokens, pos, acc) ==
  IF NextAccess(tokens, pos).found
  THEN FoldMany(tokens, NextAccess(tokens, pos).next,
                FoldAccess(acc, NextAccess(tokens, pos).access))
  ELSE [t |-> acc.t, expr |-> acc.expr, rest |-> SubSeq(tokens, pos, Len(tokens))]

\* parse_term_prec1 on tokens that begin with a variable.
parse_term_prec1(tokens) ==
  FoldMany(tokens, 2, [t |-> "ok", expr |-> Factor(tokens[1]), was_unary_op |-> FALSE])

\* The most accesses of a chain.
MaxChain == 3

\* The accesses of the chains, as tokens.
AccessTokens ==
  { <<"(", ")">>, <<".", "b">>, <<"->", "b">>, <<"[", "0", "]">>, <<"++">>, <<"--">> }

\* The chains of n accesses, as token lists.
RECURSIVE Chains(_)
Chains(n) ==
  IF n = 0 THEN { <<>> }
  ELSE { chain \o access : chain \in Chains(n - 1), access \in AccessTokens }

\* ret.old[3] holds the tokens given to the parser.
PostfixInit ==
  /\ var_macros = <<>>
  /\ fn_macros = <<>>
  /\ \E n \in 0..MaxChain : \E chain \in Chains(n) :
       ret = [op |-> "new", name |-> "", flag |-> FALSE, res |-> <<>>,
              params |-> <<>>, prev |-> "none", old |-> <<"none", <<>>, <<"a">> \o chain>>]

ApplyParse ==
  /\ ret.op = "new"
  /\ ret' = [ret EXCEPT !.op = "parse", !.res = parse_term_prec1(ret.old[3])]
  /\ UNCHANGED <<var_macros, fn_macros>>

PostfixNext == ApplyParse

PostfixSpec == PostfixInit /\ [][PostfixNext]_vars

(***************************************************************************)
(* finish applied to a cast of a unary operation to a type identifier T:   *)
(* the initial states hold the cast (ret.old[3]) and the context           *)
(* (ret.old[2]), the action applies finish.                                *)
(***************************************************************************)

\* The unary operators of the casts.
CastOperators == { "Plus", "Minus", "Deref", "AddrOf", "Not", "Comp" }

\* The operands of the unary operators.
CastOperands == { LiteralExpr(LitInt(1, <<>>)), Variable("b") }

EvalErr == [t |-> "err", expr |-> <<>>, ty |-> <<>>, e |-> "UnsupportedExpression"]

EvalOk(expr, ty) == [t |-> "ok", expr |-> expr, ty |-> ty, e |-> ""]

\* The contexts: T is resolved as a type or not, T and b are evaluated as
\* variables or not.
CastContexts ==
  { [ resolve_ty |-> [name \in ExprIdentifiers \cup {"T"} |->
                        IF name = "T" THEN resolved ELSE <<>>],
      eval_variable |-> [name \in ExprIdentifiers \cup {"T"} |->
                           IF name = "T" THEN value
                           ELSE IF name = "b" THEN operand
                           ELSE EvalErr],
      ffi_prefix |-> <<>> ] :
      resolved \in { <<>>, <<Path(FALSE, <<"T">>)>>, <<Path(FALSE, <<"u8">>)>> },
      value \in { EvalErr, EvalOk(LiteralExpr(LitInt(2, <<>>)), <<BuiltIn("Int")>>) },
      operand \in { EvalErr, EvalOk(Variable("b"), <<BuiltIn("Int")>>) } }

CastInit ==
  /\ var_macros = <<>>
  /\ fn_macros = <<>>
  /\ \E op \in CastOperators, e \in CastOperands, is_struct \in BOOLEAN,
        ctx \in CastContexts :
       ret = [op |-> "new", name |-> "", flag |-> FALSE, res |-> <<>>,
              params |-> <<>>, prev |-> "none",
              old |-> <<"none", ctx,
                        CastExpr(UnaryExpr(op, e), TypeIdentifier("T", is_struct))>>]

ApplyFinishCast ==
  /\ ret.op = "new"
  /\ ret' = [ret EXCEPT !.op = "finish", !.res = finish(ret.old[3], ret.old[2])]
  /\ UNCHANGED <<var_macros, fn_macros>>

CastNext == ApplyFinishCast

CastSpec == CastInit /\ [][CastNext]_vars

(***************************************************************************)
(* Properties of the expansion under RedefineSpec.                         *)
(***************************************************************************)

\* The example of tests::macro_set is defined: T is G(1), G is F and F(a) is
\* F(V * (a)).
ExampleDefined ==
  /\ Definition("T") = <<"var", <<>>, <<"G", "(", "1", ")">>>>
  /\ Definition("G") = <<"var", <<>>, <<"F">>>>
  /\ Definition("F") = <<"fn", <<"a">>, <<"F", "(", "V", "*", "(", "a", ")", ")">>>>

\* C11: an expansion uses the definitions in force when it is made, in
\* whatever order they were made: with the example defined, T expands to
\* F(v * (1)) where v is the body V has now (the name V when it has none);
\* and a definition of a name that is reported as a redefinition of the same
\* kind has replaced the body.
C11_LatestDefinitionUsed ==
  /\ ret.op = "expand_var_macro" /\ ret.name = "T" /\ ExampleDefined =>
        /\ ret.res.t = "ok"
        /\ ret.res.toks =
             << MacroToken("Id", "F", 0), MacroToken("Token", "(", 0),
                IF Kind("V") = "var" THEN MacroToken("Lit", var_macros["V"][1], 0)
                ELSE MacroToken("Id", "V", 0),
                MacroToken("Token", "*", 0), MacroToken("Token", "(", 0),
                MacroToken("Lit", "1", 0), MacroToken("Token", ")", 0),
                MacroToken("Token", ")", 0) >>
  /\ ret.op = "define_var_macro" /\ ret.prev = "var" /\ ret.flag =>
        var_macros[ret.name] # ret.old[3]

\* T has been expanded with the example defined and V defined as 2.
C11_ExpandedAfterRedefinition ==
  /\ ret.op = "expand_var_macro" /\ ret.name = "T" /\ ExampleDefined
  /\ Definition("V") = <<"var", <<>>, <<"2">>>>
  /\ ret.res.t = "ok"
  /\ MacroToken("Lit", "2", 0) \in { ret.res.toks[j] : j \in 1..Len(ret.res.toks) }

(***************************************************************************)
(* Properties of `#` under HashSpec.                                       *)
(***************************************************************************)

\* The arguments F is invoked with in the body of T, each with the spelling
\* of the string literal that `#` makes of it.
StringifiedArguments ==
  { << <<"a", "+", "b">>, "\"a + b\"" >>,
    << <<>>, "\"\"" >>,
    << <<"V">>, "\"V\"" >>,
    << <<"\"abc\"">>, "\"\\\"abc\\\"\"" >>,
    << <<"__LINE__">>, "\"__LINE__\"" >>,
    << <<"u8">>, "\"u8\"" >> }

\* C12: a parameter that follows `#` is replaced by one string literal made
\* of the argument's tokens as they are written, whether or not they name
\* macros; an empty argument gives the literal "".  With F(x) defined as
\* # x, the body F(arguments) expands to that one literal.
C12_ArgumentStringifiedAsWritten ==
  \A e \in StringifiedArguments :
    (/\ ret.op = "expand_var_macro"
     /\ ret.prev = "var"
     /\ Body = <<"F", "(">> \o e[1] \o <<")">>
     /\ Definition("F") = <<"fn", <<"x">>, <<"#", "x">>>>)
    => /\ ret.res.t = "ok"
       /\ ret.res.toks = <<MacroToken("Lit", e[2], 0)>>

\* F(a + b) has been expanded to one literal while a is defined as a macro.
C12_MacroNameStringified ==
  /\ ret.op = "expand_var_macro"
  /\ ret.prev = "var"
  /\ Body = <<"F", "(", "a", "+", "b", ")">>
  /\ Definition("F") = <<"fn", <<"x">>, <<"#", "x">>>>
  /\ Kind("a") = "var"
  /\ ret.res.t = "ok"
  /\ Len(ret.res.toks) = 1

\* body holds a `#` that no parameter of params and no __VA_ARGS__ follows.
HashWithoutArgument(params, body) ==
  \E j \in 1..Len(body) :
    /\ body[j] = "#"
    /\ j = Len(body)
         \/ body[j + 1] \notin { params[q] : q \in 1..Len(params) } \cup { "__VA_ARGS__" }

\* C14: the invocation of a function-like macro in whose body a `#` is not
\* followed by a parameter or __VA_ARGS__ returns StringifyNonArgument; in
\* the body of a variable-like macro `#` is a token like any other: a body
\* that holds `#` and no macro name is returned as it is.
C14_HashWithoutArgumentRejected ==
  /\ (/\ ret.op = "expand_var_macro"
      /\ ret.prev = "var"
      /\ IsCall(Body, "F")
      /\ Given(Body) = 1
      /\ Kind("F") = "fn"
      /\ Len(fn_macros["F"].args) = 1
      /\ HashWithoutArgument(fn_macros["F"].args, fn_macros["F"].body))
     => ret.res.t = "err" /\ ret.res.e = "StringifyNonArgument"
  /\ (/\ ret.op = "expand_var_macro"
      /\ ret.prev = "var"
      /\ \E j \in 1..Len(Body) : Body[j] = "#"
      /\ \A j \in 1..Len(Body) :
           Body[j] # "##" /\ Body[j] \notin DOMAIN var_macros \cup DOMAIN fn_macros)
     => ret.res.t = "ok" /\ ret.res.toks = Unexpanded(Body)

\* F(x) is x ## # and the invocation F(u8) has returned StringifyNonArgument.
C14_PrefixHashRejected ==
  /\ ret.op = "expand_var_macro"
  /\ ret.prev = "var"
  /\ Body = <<"F", "(", "u8", ")">>
  /\ Definition("F") = <<"fn", <<"x">>, <<"x", "##", "#">>>>
  /\ ret.res.t = "err"
  /\ ret.res.e = "StringifyNonArgument"

(***************************************************************************)
(* Properties of stringify under StringifySpec.                            *)
(***************************************************************************)

\* The spellings of tokens from position j on, each with a space before it
\* unless the token is in no_space_before or the token before it is in
\* no_space_after.
RECURSIVE Spaced(_, _, _, _)
Spaced(tokens, j, no_space_before, no_space_after) ==
  IF j > Len(tokens) THEN ""
  ELSE (IF j = 1 \/ tokens[j] \in no_space_before \/ tokens[j - 1] \in no_space_after
        THEN "" ELSE " ")
       \o tokens[j] \o Spaced(tokens, j + 1, no_space_before, no_space_after)

\* The string literal whose content is the tokens that are no comments,
\* spaced by these rules.
SpacedLiteral(tokens, no_space_before, no_space_after) ==
  <<Literal("str", "\"" \o Spaced(SelectSeq(tokens, LAMBDA t : ~is_comment(t)), 1,
                                   no_space_before, no_space_after) \o "\"")>>

\* C13 as stated: the string is made of the spellings of the tokens that
\* are no comments with one space between two tokens, except that there is
\* no space before `)`, `]`, `}`, `.`, `,` and none after `(`, `[`, `{`, `.`,
\* and these are the only exceptions.
C13_SpacedWithStatedExceptions ==
  ret.op = "stringify" =>
    ret.res.toks = SpacedLiteral(ret.old[3], { ")", "]", "}", ".", "," },
                                 { "(", "[", "{", "." })

\* C13 amended: there is no space before `(` either: no space before `)`,
\* `]`, `}`, `.`, `,`, `(` and none after `(`, `[`, `{`, `.`; between every
\* other two tokens there is exactly one space.
C13_SpacedWithoutSpaceBeforeParenthesis ==
  ret.op = "stringify" =>
    ret.res.toks = SpacedLiteral(ret.old[3], { ")", "]", "}", ".", ",", "(" },
                                 { "(", "[", "{", "." })

\* stringify has been applied to a ( 1 and has put no space before `(`.
C13_ParenthesisAfterToken ==
  /\ ret.op = "stringify"
  /\ ret.old[3] = <<"a", "(", "1">>
  /\ ret.res.toks = <<Literal("str", "\"a(1\"")>>

(***************************************************************************)
(* Properties of `##` under ConcatSpec.                                    *)
(***************************************************************************)

\* body holds a `##` that only comments come before.
ConcatAtBegin(body) ==
  \E j \in 1..Len(body) :
    body[j] = "##" /\ \A q \in 1..(j - 1) : is_comment(body[q])

\* body holds a `##` that only comments come after.
ConcatAtEnd(body) ==
  \E j \in 1..Len(body) :
    body[j] = "##" /\ \A q \in (j + 1)..Len(body) : is_comment(body[q])

\* The error the expansion of such a body is to return.
ConcatPlacementRejected(body) ==
  /\ ConcatAtBegin(body) => ret.res.t = "err" /\ ret.res.e = "ConcatBegin"
  /\ ConcatAtEnd(body) /\ ~ConcatAtBegin(body) =>
       ret.res.t = "err" /\ ret.res.e = "ConcatEnd"

\* C15: the expansion of a macro whose body holds a `##` with no token
\* before it, comments left out, returns ConcatBegin and with no token after
\* it ConcatEnd (ConcatBegin when both hold), for a variable-like macro, for
\* a function-like macro expanded as a template and for one that is invoked.
C15_ConcatAtBeginOrEndRejected ==
  /\ ret.op = "expand_var_macro" /\ ret.prev = "var" => ConcatPlacementRejected(Body)
  /\ ret.op = "expand_fn_macro" /\ ret.prev = "fn" =>
       ConcatPlacementRejected(fn_macros[ret.name].body)
  /\ (/\ ret.op = "expand_var_macro"
      /\ ret.prev = "var"
      /\ Kind("F") = "fn"
      /\ IsCall(Body, "F")
      /\ Given(Body) = Len(fn_macros["F"].args))
     => ConcatPlacementRejected(fn_macros["F"].body)

\* The arguments G is invoked with in the body of T, each with the spelling
\* of the one token the pastes leave ("" for no token).
PastedArguments ==
  { << <<"1", ",", "2", ",", "3">>, "123" >>,
    << <<",", "2", ",", "3">>, "23" >>,
    << <<"1", ",", ",", "3">>, "13" >>,
    << <<"1", ",", "2", ",">>, "12" >>,
    << <<"1", ",", ",">>, "1" >>,
    << <<",", "2", ",">>, "2" >>,
    << <<",", ",", "3">>, "3" >>,
    << <<",", ",">>, "" >> }

\* The tokens that follow the name and `(` of an invocation, without `)`.
Arguments(body) == SubSeq(body, 3, Len(body) - 1)

\* The tokens of G's body with the arguments of the invocation in T put in.
PastedBody ==
  expand_arguments({"T"}, fn_macros["G"].args,
                   collect_args(tokenize(<<>>, Body), 2).args,
                   tokenize(fn_macros["G"].args, fn_macros["G"].body), MaxDepth)

\* C16: an empty argument for a parameter next to `##` makes the paste give
\* the other operand, two empty operands give no token: with G(x, y, z)
\* defined as x ## y ## z the invocation of G gives the paste of the
\* arguments that are not empty in their order, or nothing, and F(,) gives
\* nothing for F(x, y) defined as x ## y; no Placemarker is left in the
\* tokens once the pastes of the body are made.
C16_EmptyArgumentPasted ==
  /\ \A e \in PastedArguments :
       (/\ ret.op = "expand_var_macro"
        /\ ret.prev = "var"
        /\ Body = <<"G", "(">> \o e[1] \o <<")">>
        /\ Kind("G") = "fn")
       => /\ ret.res.t = "ok"
          /\ ret.res.toks =
               IF e[2] = "" THEN <<>> ELSE <<MacroToken("Lit", e[2], 0)>>
          /\ PastedBody.t = "ok"
          /\ expand_concat(PastedBody.toks).t = "ok"
          /\ \A t \in { remove_placemarkers(expand_concat(PastedBody.toks).toks)[j] :
                         j \in 1..Len(remove_placemarkers(
                                        expand_concat(PastedBody.toks).toks)) } :
               t.k # "pm"
  /\ (/\ ret.op = "expand_var_macro"
      /\ ret.prev = "var"
      /\ Body = <<"F", "(", ",", ")">>
      /\ Definition("F") = <<"fn", <<"x", "y">>, <<"x", "##", "y">>>>)
     => ret.res.t = "ok" /\ ret.res.toks = <<>>

\* G(1, , ) has been expanded: two Placemarkers were pasted to 1.
C16_PlacemarkersPasted ==
  /\ ret.op = "expand_var_macro"
  /\ ret.prev = "var"
  /\ Body = <<"G", "(", "1", ",", ",", ")">>
  /\ Kind("G") = "fn"
  /\ Len(SelectSeq(PastedBody.toks, LAMBDA t : t.k = "pm")) = 2
  /\ ret.res.toks = <<MacroToken("Lit", "1", 0)>>

(***************************************************************************)
(* Properties of Token::concat under PasteSpec.  A token is compared by    *)
(* its variant and spelling.                                               *)
(***************************************************************************)

PasteIdentifiers == { "a", "u8", "L" }

PasteIntegers == { "1" }

PasteFloats == { "1.5", "1e4" }

PasteStrings == { "\"abc\"", "'c'" }

PastePunctuation == { ".", "-", ">", "+", "#" }

\* The pairs of PastePunctuation that make a compound operator.
CompoundOperators ==
  { <<"-", ">", "->">>, <<"-", "-", "--">>, <<">", ">", ">>">>,
    <<"+", "+", "++">>, <<"#", "#", "##">> }

\* The operands of the paste that was made.
Lhs == ret.old[3][1]

Rhs == ret.old[3][2]

\* The paste returned one token of this variant and spelling.
Pasted(k, s) ==
  /\ ret.res.t = "ok"
  /\ Len(ret.res.toks) = 1
  /\ ret.res.toks[1].k = k
  /\ ret.res.toks[1].s = s

InvalidConcat == ret.res.t = "err" /\ ret.res.e = "InvalidConcat"

\* The rows of the table other than the row of `.` and a number.
PasteTableWithoutDot ==
  /\ Lhs \in PasteIdentifiers /\ Rhs \in PasteIdentifiers => Pasted("id", Lhs \o Rhs)
  /\ Lhs \in PasteIdentifiers /\ Rhs \in PasteIntegers => Pasted("id", Lhs \o Rhs)
  /\ Lhs \in PastePunctuation /\ Rhs \in PastePunctuation =>
       IF \E e \in CompoundOperators : e[1] = Lhs /\ e[2] = Rhs
       THEN \E e \in CompoundOperators : e[1] = Lhs /\ e[2] = Rhs /\ Pasted("punct", e[3])
       ELSE InvalidConcat
  /\ (/\ (Lhs \in PastePunctuation) # (Rhs \in PastePunctuation)
      /\ ~(Lhs = "." /\ Rhs \in PasteIntegers \cup PasteFloats))
     => InvalidConcat

\* C17 as stated: identifier ## identifier and identifier ## integer give
\* the identifier of the joined spelling, `.` ## integer or float gives a
\* float literal, punctuation ## punctuation gives the compound operator of
\* the table or InvalidConcat, every other paste with a punctuation operand
\* gives InvalidConcat.
C17_PasteTable ==
  ret.op = "concat" =>
    /\ PasteTableWithoutDot
    /\ Lhs = "." /\ Rhs \in PasteIntegers \cup PasteFloats =>
         Pasted("lit", Lhs \o Rhs) /\ ret.res.toks[1].lk = "float"

\* C17 amended: `.` ## integer or float gives a float literal when the
\* joined spelling is one, which it is when the number holds no `.`, and
\* InvalidConcat when it is not; the other rows as stated.
C17_PasteTableDotBeforeFloat ==
  ret.op = "concat" =>
    /\ PasteTableWithoutDot
    /\ Lhs = "." /\ Rhs \in { "1", "1e4" } =>
         Pasted("lit", Lhs \o Rhs) /\ ret.res.toks[1].lk = "float"
    /\ Lhs = "." /\ Rhs = "1.5" => InvalidConcat

\* `.` has been pasted to 1e4 and the float literal .1e4 was returned.
C17_DotPastedToFloat ==
  /\ ret.op = "concat"
  /\ Lhs = "."
  /\ Rhs = "1e4"
  /\ Pasted("lit", ".1e4")

\* C18: a paste with a string or char literal as an operand succeeds only
\* for one of the identifiers u8, u, U, L on the left and a string or char
\* literal without prefix on the right, and gives the literal with that
\* prefix; every other paste with a string or char literal returns
\* InvalidConcat.
C18_StringPastedToPrefixOnly ==
  ret.op = "concat" /\ (Lhs \in PasteStrings \/ Rhs \in PasteStrings) =>
    IF Lhs \in { "u8", "u", "U", "L" } /\ Rhs \in PasteStrings
    THEN Pasted("lit", Lhs \o Rhs)
    ELSE InvalidConcat

(***************************************************************************)
(* Properties of __VA_ARGS__ under VariadicSpec.                           *)
(***************************************************************************)

HoldsVarArgs(body) == \E j \in 1..Len(body) : body[j] = "__VA_ARGS__"

\* The function-like macro f has `...` as its last parameter.
IsVariadic(f) ==
  fn_macros[f].args # <<>> /\ fn_macros[f].args[Len(fn_macros[f].args)] = "..."

NonVariadicVarArgs == ret.res.t = "err" /\ ret.res.e = "NonVariadicVarArgs"

\* C19: the expansion of a variable-like macro and of a function-like macro
\* whose last parameter is not `...` returns NonVariadicVarArgs when the
\* body holds __VA_ARGS__, also when the macro is the one another body names
\* or invokes; define_var_macro and define_fn_macro take every definition.
C19_VarArgsInNonVariadicRejected ==
  /\ ret.op = "expand_var_macro" /\ ret.prev = "var" /\ HoldsVarArgs(Body) =>
       NonVariadicVarArgs
  /\ (/\ ret.op = "expand_fn_macro"
      /\ ret.prev = "fn"
      /\ ~IsVariadic(ret.name)
      /\ HoldsVarArgs(fn_macros[ret.name].body))
     => NonVariadicVarArgs
  /\ \A n \in Names \ {ret.name} :
       (/\ ret.op = "expand_var_macro"
        /\ ret.prev = "var"
        /\ \/ Body = <<n>> /\ Kind(n) = "var" /\ HoldsVarArgs(var_macros[n])
           \/ /\ IsCall(Body, n)
              /\ Kind(n) = "fn"
              /\ ~IsVariadic(n)
              /\ HoldsVarArgs(fn_macros[n].body))
       => NonVariadicVarArgs
  /\ ret.op = "define_var_macro" =>
       \E def \in VariadicVarDefinitions :
         def[1] = ret.name /\ Definition(ret.name) = <<"var", <<>>, def[2]>>
  /\ ret.op = "define_fn_macro" =>
       \E def \in VariadicFnDefinitions :
         def[1] = ret.name /\ Definition(ret.name) = <<"fn", def[2], def[3]>>

\* The body of T names V, whose body holds __VA_ARGS__, and the expansion
\* of T has returned NonVariadicVarArgs.
C19_NestedVarArgsRejected ==
  /\ ret.op = "expand_var_macro"
  /\ ret.prev = "var"
  /\ Body = <<"V">>
  /\ Kind("V") = "var"
  /\ HoldsVarArgs(var_macros["V"])
  /\ NonVariadicVarArgs

\* The positions of the `,` tokens in tokens.
Commas(tokens) == { j \in 1..Len(tokens) : tokens[j] = "," }

\* The position of the n-th `,` of tokens: 0 for n = 0, Len(tokens) + 1 when
\* there are fewer.
CommaAt(tokens, n) ==
  IF n = 0 THEN 0
  ELSE IF Cardinality(Commas(tokens)) < n THEN Len(tokens) + 1
  ELSE CHOOSE j \in Commas(tokens) :
         Cardinality({ q \in Commas(tokens) : q <= j }) = n

\* The argument at position n (from 0) as it is written in tokens.
WrittenArgument(tokens, n) ==
  SubSeq(tokens, CommaAt(tokens, n) + 1, CommaAt(tokens, n + 1) - 1)

\* The arguments from position n on as they are written, commas included.
WrittenFrom(tokens, n) == SubSeq(tokens, CommaAt(tokens, n) + 1, Len(tokens))

\* body from position j on with every parameter replaced by its written
\* argument and __VA_ARGS__ by the written arguments that follow the named
\* ones.
RECURSIVE Replaced(_, _, _, _)
Replaced(body, j, params, tokens) ==
  IF j > Len(body) THEN <<>>
  ELSE (IF body[j] = "__VA_ARGS__" THEN WrittenFrom(tokens, Len(params) - 1)
        ELSE IF Position(params, body[j]) > 0
        THEN WrittenArgument(tokens, Position(params, body[j]) - 1)
        ELSE <<body[j]>>)
       \o Replaced(body, j + 1, params, tokens)

\* C20: in the invocation of a variadic macro with k named parameters and
\* at least k arguments __VA_ARGS__ is replaced by the arguments from
\* position k on in their order with one `,` between two of them, by
\* nothing when there is none, and the named parameters by the arguments
\* 0..k-1; `#` makes one string of the variable arguments.
C20_VarArgsJoinedByComma ==
  /\ (/\ ret.op = "expand_var_macro"
      /\ ret.prev = "var"
      /\ IsCall(Body, "F")
      /\ Kind("F") = "fn"
      /\ IsVariadic("F")
      /\ Given(Body) >= Len(fn_macros["F"].args) - 1)
     => /\ ret.res.t = "ok"
        /\ ret.res.toks =
             Unexpanded(Replaced(fn_macros["F"].body, 1, fn_macros["F"].args,
                                 Arguments(Body)))
  /\ (/\ ret.op = "expand_var_macro"
      /\ ret.prev = "var"
      /\ Body = <<"G", "(", "a", ",", "b", ")">>
      /\ Definition("G") = <<"fn", <<"...">>, <<"#", "__VA_ARGS__">>>>)
     => ret.res.t = "ok" /\ ret.res.toks = <<MacroToken("Lit", "\"a, b\"", 0)>>

\* F(x, ...) is x + __VA_ARGS__ and F(1, 2, 3) has been expanded to
\* 1 + 2 , 3.
C20_TwoVarArgsJoined ==
  /\ ret.op = "expand_var_macro"
  /\ ret.prev = "var"
  /\ Body = <<"F", "(", "1", ",", "2", ",", "3", ")">>
  /\ Definition("F") = <<"fn", <<"x", "...">>, <<"x", "+", "__VA_ARGS__">>>>
  /\ ret.res.t = "ok"
  /\ ret.res.toks = Unexpanded(<<"1", "+", "2", ",", "3">>)

(***************************************************************************)
(* Properties of expand_fn_macro under TemplateSpec.                       *)
(***************************************************************************)

\* The tokens from position j on with every name of a variable-like macro
\* that is not in seen replaced by its body, expanded in the same way with
\* the name added to seen.
RECURSIVE FullyExpanded(_, _, _)
FullyExpanded(tokens, j, seen) ==
  IF j > Len(tokens) THEN <<>>
  ELSE LET replaced == tokens[j] \in DOMAIN var_macros \ seen
       IN  FullyExpanded(IF replaced THEN var_macros[tokens[j]] ELSE <<>>, 1,
                         seen \cup {tokens[j]})
           \o (IF replaced THEN <<>> ELSE <<tokens[j]>>)
           \o FullyExpanded(tokens, j + 1, seen)

\* The template of the function-like macro name: Arg(index) for a parameter,
\* Arg(last index) for __VA_ARGS__, every other token fully expanded.
TemplateOf(name) ==
  LET params == fn_macros[name].args
      body == fn_macros[name].body
      part(j) == IF Position(params, body[j]) > 0
                 THEN <<MacroToken("Arg", "", Position(params, body[j]) - 1)>>
                 ELSE IF body[j] = "__VA_ARGS__"
                 THEN <<MacroToken("Arg", "", Len(params) - 1)>>
                 ELSE Unexpanded(FullyExpanded(<<body[j]>>, 1, {name}))
      from[j \in 1..(Len(body) + 1)] ==
        IF j > Len(body) THEN <<>> ELSE part(j) \o from[j + 1]
  IN  from[1]

\* The Arg tokens of a list of MacroTokens, in their order.
ArgsOf(toks) == SelectSeq(toks, LAMBDA t : t.k = "Arg")

\* The name of a function-like macro other than name is among tokens.
NamesOtherFnMacro(tokens, name) ==
  \E j \in 1..Len(tokens) : tokens[j] \in DOMAIN fn_macros \ {name}

\* C21: expand_fn_macro returns the parameter names as tokens and the body
\* with every token that is a parameter name as Arg(index of the parameter),
\* also when a macro has that name, __VA_ARGS__ as Arg(last index) and the
\* other tokens expanded: for a body without `#` and `##` in which no other
\* function-like macro is reached the result is that template; for every
\* body the Arg tokens returned are those of the parameters in the body, in
\* their order; and F(a) defined as G(a) + V with G(b) defined as b and V as
\* b gives Arg0 + the expansion of b.
C21_TemplateReturned ==
  ret.op = "expand_fn_macro" /\ ret.prev = "fn" =>
    /\ ret.res.t = "ok" =>
          /\ ret.params = Unexpanded(fn_macros[ret.name].args)
          /\ ArgsOf(ret.res.toks) = ArgsOf(TemplateOf(ret.name))
    /\ (/\ \A j \in 1..Len(fn_macros[ret.name].body) :
              fn_macros[ret.name].body[j] \notin { "#", "##" }
         /\ ~NamesOtherFnMacro(fn_macros[ret.name].body, ret.name)
         /\ \A n \in DOMAIN var_macros : ~NamesOtherFnMacro(var_macros[n], ret.name))
        => ret.res.t = "ok" /\ ret.res.toks = TemplateOf(ret.name)
    /\ (/\ Definition("F") = <<"fn", <<"a">>, <<"G", "(", "a", ")", "+", "V">>>>
         /\ Definition("G") = <<"fn", <<"b">>, <<"b">>>>
         /\ Definition("V") = <<"var", <<>>, <<"b">>>>
         /\ ret.name = "F")
        => /\ ret.res.t = "ok"
           /\ ret.res.toks = <<MacroToken("Arg", "", 0), MacroToken("Token", "+", 0)>>
                \o Unexpanded(FullyExpanded(<<"b">>, 1, {}))

\* F(a, b) is a + V + b with V defined as a + b, a as 2 and b as 3, and the
\* template Arg0 + 2 + 3 + Arg1 has been returned.
C21_ParametersNamedAsMacros ==
  /\ ret.op = "expand_fn_macro"
  /\ ret.name = "F"
  /\ Definition("F") = <<"fn", <<"a", "b">>, <<"a", "+", "V", "+", "b">>>>
  /\ Definition("V") = <<"var", <<>>, <<"a", "+", "b">>>>
  /\ Definition("a") = <<"var", <<>>, <<"2">>>>
  /\ Definition("b") = <<"var", <<>>, <<"3">>>>
  /\ ret.params = <<MacroToken("Id", "a", 0), MacroToken("Id", "b", 0)>>
  /\ ret.res.t = "ok"
  /\ ret.res.toks =
       << MacroToken("Arg", "", 0), MacroToken("Token", "+", 0),
          MacroToken("Lit", "2", 0), MacroToken("Token", "+", 0),
          MacroToken("Lit", "3", 0), MacroToken("Token", "+", 0),
          MacroToken("Arg", "", 1) >>

(***************************************************************************)
(* Properties of BuiltInType under BuiltInSpec.                            *)
(***************************************************************************)

\* C22: the type to_rust_ty returns for a BuiltInType is mapped back to
\* that BuiltInType by from_rust_ty with the ffi prefix of the same context,
\* and no other BuiltInType is mapped to the same type in that context.
C22_BuiltInRoundTrip ==
  /\ ret.op = "from_rust_ty" => ret.res = <<ret.name>>
  /\ ret.op = "to_rust_ty" =>
       \A other \in BuiltInTypes \ {ret.name} :
         to_rust_ty(other, ret.old[3]) # ret.params

(***************************************************************************)
(* Properties of finish under FinishSpec.                                  *)
(***************************************************************************)

\* C23: for an expression made of integer, float and character literals and
\* arithmetic operators, finish applied to the node a first finish left
\* leaves the node as it is and returns the same type.
C23_FinishTwiceIsFinishOnce ==
  ret.op = "finish_again" =>
    /\ ret.params.t = "ok"
    /\ ret.params.node = ret.res.node
    /\ ret.params.ty = ret.res.ty

(***************************************************************************)
(* Properties of the arguments of an invocation under ArgumentSpec.        *)
(***************************************************************************)

\* C24: the argument of a parameter that `##` precedes or follows is put in
\* as it is written, without expanding the macros it names, before the
\* paste: with F(x, y) defined as x ## y or as y ## x, F(a, b) gives the
\* identifier ab or ba, whether or not a is defined as a macro.
C24_RawArgumentPasted ==
  /\ (/\ ret.op = "expand_var_macro"
      /\ ret.prev = "var"
      /\ Body = <<"F", "(", "a", ",", "b", ")">>
      /\ Definition("F") = <<"fn", <<"x", "y">>, <<"x", "##", "y">>>>)
     => ret.res.t = "ok" /\ ret.res.toks = <<MacroToken("Id", "ab", 0)>>
  /\ (/\ ret.op = "expand_var_macro"
      /\ ret.prev = "var"
      /\ Body = <<"F", "(", "a", ",", "b", ")">>
      /\ Definition("F") = <<"fn", <<"x", "y">>, <<"y", "##", "x">>>>)
     => ret.res.t = "ok" /\ ret.res.toks = <<MacroToken("Id", "ba", 0)>>

\* The body a variable-like macro has, its name when it is not defined.
BodyOrName(name) == IF Kind(name) = "var" THEN var_macros[name] ELSE <<name>>

\* C25: the argument of a parameter that is not next to `#` or `##` is
\* expanded before it is put into the body, with the names not replaced in
\* the caller, the invoked macro not being one of them: with F(a) defined
\* as F(V * (a)), the body F(F(z)) of T gives F(v * (F(v * (z')))), v and z'
\* being what V and z expand to, the F of F's body is left as it is, and
\* the body F(T) of T gives F(v * (T)); with F(x, y) defined as x + y,
\* F(a, b) gives a' + b.
C25_ArgumentExpandedBeforeInsertion ==
  /\ (/\ ret.op = "expand_var_macro"
      /\ ret.prev = "var"
      /\ ret.name = "T"
      /\ Definition("F") = <<"fn", <<"a">>, <<"F", "(", "V", "*", "(", "a", ")", ")">>>>)
     => /\ Body = <<"F", "(", "F", "(", "z", ")", ")">> =>
             /\ ret.res.t = "ok"
             /\ ret.res.toks =
                  Unexpanded(<<"F", "(">> \o BodyOrName("V") \o <<"*", "(", "F", "(">>
                             \o BodyOrName("V") \o <<"*", "(">> \o BodyOrName("z")
                             \o <<")", ")", ")", ")">>)
        /\ Body = <<"F", "(", "T", ")">> =>
             /\ ret.res.t = "ok"
             /\ ret.res.toks =
                  Unexpanded(<<"F", "(">> \o BodyOrName("V") \o <<"*", "(", "T", ")", ")">>)
  /\ (/\ ret.op = "expand_var_macro"
      /\ ret.prev = "var"
      /\ Body = <<"F", "(", "a", ",", "b", ")">>
      /\ Definition("F") = <<"fn", <<"x", "y">>, <<"x", "+", "y">>>>)
     => /\ ret.res.t = "ok"
        /\ ret.res.toks = Unexpanded(BodyOrName("a") \o <<"+", "b">>)

\* F(F(z)) has been expanded with V defined as 2 and z as z[0]: the inner
\* invocation was expanded, the F of the body of F was not.
C25_NestedInvocationExpanded ==
  /\ ret.op = "expand_var_macro"
  /\ ret.prev = "var"
  /\ Body = <<"F", "(", "F", "(", "z", ")", ")">>
  /\ Definition("F") = <<"fn", <<"a">>, <<"F", "(", "V", "*", "(", "a", ")", ")">>>>
  /\ Definition("V") = <<"var", <<>>, <<"2">>>>
  /\ Definition("z") = <<"var", <<>>, <<"z", "[", "0", "]">>>>
  /\ ret.res.t = "ok"
  /\ ret.res.toks =
       Unexpanded(<<"F", "(", "2", "*", "(", "F", "(", "2", "*", "(", "z", "[", "0", "]",
                    ")", ")", ")", ")">>)

(***************************************************************************)
(* Properties of the scan of expand_macro_body under DisjunctSpec.         *)
(***************************************************************************)

\* F is the function-like macro F(a, b) = a + b.
SumDefined == Definition("F") = <<"fn", <<"a", "b">>, <<"a", "+", "b">>>>

\* C26: after a replacement the scan starts again over the tokens built so
\* far, the replacement and the tokens after the replaced macro, so an
\* invocation may span the end of an expansion: with G() defined as F, or V
\* as F, G()(3, 1) and V(3, 1) give 3 + 1; with V defined as F ( 1 , the
\* bodies V 2 ) and 4 * V 2 ) give 1 + 2 and 4 * 1 + 2, in the body of a
\* variable-like macro and in the body of the function-like macro G().
C26_InvocationSpansExpansion ==
  /\ (ret.op = "expand_var_macro" /\ ret.prev = "var" /\ SumDefined) =>
       /\ (/\ Body = <<"G", "(", ")", "(", "3", ",", "1", ")">>
           /\ Definition("G") = <<"fn", <<>>, <<"F">>>>)
          => ret.res.t = "ok" /\ ret.res.toks = Unexpanded(<<"3", "+", "1">>)
       /\ (/\ Body = <<"V", "(", "3", ",", "1", ")">>
           /\ Definition("V") = <<"var", <<>>, <<"F">>>>)
          => ret.res.t = "ok" /\ ret.res.toks = Unexpanded(<<"3", "+", "1">>)
       /\ (/\ Body = <<"V", "2", ")">>
           /\ Definition("V") = <<"var", <<>>, <<"F", "(", "1", ",">>>>)
          => ret.res.t = "ok" /\ ret.res.toks = Unexpanded(<<"1", "+", "2">>)
       /\ (/\ Body = <<"4", "*", "V", "2", ")">>
           /\ Definition("V") = <<"var", <<>>, <<"F", "(", "1", ",">>>>)
          => ret.res.t = "ok" /\ ret.res.toks = Unexpanded(<<"4", "*", "1", "+", "2">>)
  /\ (/\ ret.op = "expand_fn_macro"
      /\ ret.name = "G"
      /\ SumDefined
      /\ Definition("G") = <<"fn", <<>>, <<"V", "2", ")">>>>
      /\ Definition("V") = <<"var", <<>>, <<"F", "(", "1", ",">>>>)
     => /\ ret.res.t = "ok"
        /\ ret.params = <<>>
        /\ ret.res.toks = Unexpanded(<<"1", "+", "2">>)

\* G()(3, 1) has been expanded with G() defined as F: the F that the
\* expansion of G() gave was invoked with the arguments that follow it.
C26_ProducedNameInvoked ==
  /\ ret.op = "expand_var_macro"
  /\ ret.prev = "var"
  /\ SumDefined
  /\ Body = <<"G", "(", ")", "(", "3", ",", "1", ")">>
  /\ Definition("G") = <<"fn", <<>>, <<"F">>>>
  /\ ret.res.t = "ok"
  /\ ret.res.toks = Unexpanded(<<"3", "+", "1">>)

(***************************************************************************)
(* Properties of `#` on __LINE__ and __FILE__ under LineSpec.              *)
(***************************************************************************)

\* C27: with F(s) defined as # s, the invocation F(__LINE__) or
\* F(__FILE__) written in the body of the variable-like macro that is
\* expanded gives the string literal of the name; with G(s) defined as
\* F(s), the invocation G(__LINE__) or G(__FILE__), where F is invoked
\* inside the expansion of G, gives the two tokens `#` and the identifier.
C27_LineStringifiedByNesting ==
  \A builtin \in { "__LINE__", "__FILE__" } :
    (/\ ret.op = "expand_var_macro"
     /\ ret.prev = "var"
     /\ Definition("F") = <<"fn", <<"s">>, <<"#", "s">>>>)
    => /\ Body = <<"F", "(", builtin, ")">> =>
            /\ ret.res.t = "ok"
            /\ ret.res.toks = <<MacroToken("Lit", "\"" \o builtin \o "\"", 0)>>
       /\ (/\ Body = <<"G", "(", builtin, ")">>
           /\ Definition("G") = <<"fn", <<"s">>, <<"F", "(", "s", ")">>>>) =>
            /\ ret.res.t = "ok"
            /\ ret.res.toks = <<MacroToken("Token", "#", 0), MacroToken("Id", builtin, 0)>>

\* G(__LINE__) has been expanded with G(s) defined as F(s) and F(s) as # s,
\* and the result is two tokens.
C27_LineKeptWhenNested ==
  /\ ret.op = "expand_var_macro"
  /\ ret.prev = "var"
  /\ Body = <<"G", "(", "__LINE__", ")">>
  /\ Definition("G") = <<"fn", <<"s">>, <<"F", "(", "s", ")">>>>
  /\ Definition("F") = <<"fn", <<"s">>, <<"#", "s">>>>
  /\ ret.res.t = "ok"
  /\ Len(ret.res.toks) = 2

(***************************************************************************)
(* Properties of Type::qualify under QualifySpec.                          *)
(***************************************************************************)

\* C28: the type qualify returns is a Qualified whose child is not a
\* Qualified, and when the type it was called on was a Qualified, the
\* qualifier returned contains const iff the qualifier of that type or the
\* one given contains const, and volatile iff one of them contains volatile.
C28_QualifiersMerged ==
  ret.op = "qualify" =>
    /\ ret.res.k = "Qualified"
    /\ ret.res.ty.k # "Qualified"
    /\ ret.params.k = "Qualified" =>
         /\ is_const(ret.res.qualifier)
              <=> (is_const(ret.params.qualifier) \/ is_const(ret.name))
         /\ is_volatile(ret.res.qualifier)
              <=> (is_volatile(ret.params.qualifier) \/ is_volatile(ret.name))

(***************************************************************************)
(* Properties of parse_term_prec1 under PostfixSpec.                       *)
(***************************************************************************)

\* A postfix `++` or `--` of tokens is directly followed by another one, by
\* `.`, by `->` or by `[`.
PostfixOpFollowed(tokens) ==
  \E j \in 2..(Len(tokens) - 1) :
    /\ tokens[j] \in { "++", "--" }
    /\ tokens[j + 1] \in { "++", "--", ".", "->", "[" }

\* C29: a chain in which a postfix `++` or `--` is directly followed by
\* another postfix `++` or `--`, by a field access `.` or `->` or by an array
\* access is rejected; a chain of `.`, `->`, `[...]` and calls that holds no
\* postfix `++` or `--` is accepted whole, the last access outermost.
C29_PostfixChainOrdered ==
  ret.op = "parse" =>
    /\ PostfixOpFollowed(ret.old[3]) => ret.res.t = "err"
    /\ (\A j \in 1..Len(ret.old[3]) : ret.old[3][j] \notin { "++", "--" }) =>
         /\ ret.res.t = "ok"
         /\ ret.res.rest = <<>>
         /\ Len(ret.old[3]) > 1 =>
              ret.res.expr.k =
                (IF ret.old[3][Len(ret.old[3])] = ")" THEN "FunctionCall"
                 ELSE IF ret.old[3][Len(ret.old[3])] = "]" THEN "ArrayAccess"
                 ELSE "FieldAccess")

(***************************************************************************)
(* Properties of the Cast arm of finish under CastSpec.                    *)
(***************************************************************************)

\* C30: when finish has finished the operand of a cast of Unary(op, e) to
\* the type identifier T, the node is no Cast any more, but the binary
\* operation of T and e or what finish makes of it, exactly when T is no
\* struct tag, op is +, -, * or & and the oracle does not resolve T as a
\* type; in every other case the node is a Cast of the finished operand to
\* T or to the type T is resolved to.
C30_CastRewrittenWhenUnresolved ==
  LET cast == ret.old[3]
      ctx == ret.old[2]
  IN  (ret.op = "finish" /\ finish(cast.expr, ctx).t = "ok") =>
        IF /\ ~cast.ty.is_struct
           /\ cast.expr.op \in { "Plus", "Minus", "Deref", "AddrOf" }
           /\ ctx.resolve_ty["T"] = <<>>
        THEN /\ ret.res.node.k # "Cast"
             /\ ret.res.t = "ok" /\ ctx.eval_variable["T"].t # "ok" =>
                  ret.res.node = BinaryExpr(Variable("T"), AmbiguousOp(cast.expr.op)[1],
                                            finish(cast.expr.expr, ctx).node)
        ELSE /\ ret.res.t = "ok"
             /\ ret.res.node = CastExpr(finish(cast.expr, ctx).node, type_finish(cast.ty, ctx))

=============================================================================
